---- MODULE Spec2Model ----
(***************************************************************************)
(* A model of the Holon interpreters.                                      *)
(*                                                                         *)
(*   src/unnamed/part_003   the register-based interpreter: a data stack,  *)
(*                          one register, custom words defined and deleted *)
(*                          by the parser, a recursive interpreter.        *)
(*   src/script.js          the combinator-based evaluator (one            *)
(*                          dictionary).                                   *)
(*                                                                         *)
(* A token is a sequence of one-character strings, so that toUpperCase,    *)
(* parseInt, includes, split, startsWith and the tokenizer are modelled by *)
(* what they do to the characters.                                         *)
(***************************************************************************)
EXTENDS Integers, Sequences, FiniteSets, TLC

(***************************************************************************)
(* Bounds of the model.                                                    *)
(***************************************************************************)
\* the data stack never grows beyond MaxStack items
MaxStack == 2
\* numerators and denominators stay within -MaxNum .. MaxNum
MaxNum == 2
\* no source is accepted once state.output holds MaxOutput lines
MaxOutput == 1
\* nesting depth of interpret() calls (the host's call stack)
MaxDepth == 3

(***************************************************************************)
(* Characters and strings.                                                 *)
(***************************************************************************)
LowerCase == <<"a","b","c","d","e","f","g","h","i","j","k","l","m",
               "n","o","p","q","r","s","t","u","v","w","x","y","z">>
UpperCase == <<"A","B","C","D","E","F","G","H","I","J","K","L","M",
               "N","O","P","Q","R","S","T","U","V","W","X","Y","Z">>
Digits == <<"0","1","2","3","4","5","6","7","8","9">>

\* String.prototype.toUpperCase on one character
UpperChar(c) ==
    IF \E k \in 1..Len(LowerCase) : LowerCase[k] = c
    THEN UpperCase[CHOOSE k \in 1..Len(LowerCase) : LowerCase[k] = c]
    ELSE c

\* const normalizeToken = token => token.toUpperCase();
normalizeToken(token) == [k \in 1..Len(token) |-> UpperChar(token[k])]

IsDigit(c) == \E k \in 1..Len(Digits) : Digits[k] = c
DigitVal(c) == (CHOOSE k \in 1..Len(Digits) : Digits[k] = c) - 1
IsSpace(c) == c \in {" ", "\n", "\t"}

\* s.slice(from) for 1-based from
Drop(s, n) == IF n >= Len(s) THEN <<>> ELSE SubSeq(s, n + 1, Len(s))

\* Array.prototype.includes / String.prototype.includes for one element
includes(s, x) == \E k \in 1..Len(s) : s[k] = x

\* The not-a-number result of parseInt.
NaN == [isNaN |-> TRUE, val |-> 0]
Num(v) == [isNaN |-> FALSE, val |-> v]

RECURSIVE DigitsValue(_, _)
\* the value of the longest run of digits at the head of s, after acc
DigitsValue(s, acc) ==
    IF s = <<>> \/ ~IsDigit(Head(s)) THEN acc
    ELSE DigitsValue(Tail(s), 10 * acc + DigitVal(Head(s)))

RECURSIVE TrimLeft(_)
TrimLeft(s) == IF s # <<>> /\ IsSpace(Head(s)) THEN TrimLeft(Tail(s)) ELSE s

\* parseInt(s, 10): leading white space, an optional sign, then digits up to
\* the first character that is no digit; NaN when there is no digit.
parseInt(str) ==
    LET s    == TrimLeft(str)
        neg  == s # <<>> /\ Head(s) = "-"
        body == IF s # <<>> /\ Head(s) \in {"-", "+"} THEN Tail(s) ELSE s
    IN  IF body = <<>> \/ ~IsDigit(Head(body)) THEN NaN
        ELSE Num(IF neg THEN 0 - DigitsValue(body, 0) ELSE DigitsValue(body, 0))

RECURSIVE split(_, _)
\* token.split("/"): the pieces of s between the separators
split(s, sep) ==
    IF ~includes(s, sep) THEN <<s>>
    ELSE LET k == CHOOSE j \in 1..Len(s) :
                     s[j] = sep /\ \A m \in 1..(j - 1) : s[m] # sep
         IN  <<SubSeq(s, 1, k - 1)>> \o split(Drop(s, k), sep)

(***************************************************************************)
(* Values: Fraction, HolonString, and null for the empty register.         *)
(***************************************************************************)
Null == [kind |-> "null"]

HolonString(value) == [kind |-> "HolonString", value |-> value]

IsFraction(v) == v.kind = "Fraction"

Abs(x) == IF x < 0 THEN 0 - x ELSE x

RECURSIVE gcd(_, _)
\* Fraction.gcd: Euclid's algorithm, on the absolute values
gcd(a, b) == IF b = 0 THEN a ELSE gcd(b, a % b)

\* a constructor that stores its arguments as they are
Fraction_unreduced(numerator, denominator) ==
    [kind        |-> "Fraction",
     numerator   |-> numerator,
     denominator |-> denominator]

\* new Fraction(numerator, denominator) when denominator is not 0
\* (denominator 0 throws "Division by zero": see FractionThrows)
Fraction(numerator, denominator) ==
    LET g    == gcd(Abs(numerator), Abs(denominator))
        sign == IF denominator < 0 THEN -1 ELSE 1
    IN  [kind        |-> "Fraction",
         numerator   |-> sign * (numerator \div g),
         denominator |-> Abs(denominator \div g)]

\* a constructor that accepts every denominator
FractionThrows_never(numerator, denominator) == FALSE

FractionThrows(numerator, denominator) == denominator = 0

\* Fraction.add / subtract / multiply / divide, as the pair handed to the
\* constructor
addArgs(a, b) ==
    <<a.numerator * b.denominator + b.numerator * a.denominator,
      a.denominator * b.denominator>>
subtractArgs(a, b) ==
    <<a.numerator * b.denominator - b.numerator * a.denominator,
      a.denominator * b.denominator>>
multiplyArgs(a, b) ==
    <<a.numerator * b.numerator, a.denominator * b.denominator>>
divideArgs(a, b) ==
    <<a.numerator * b.denominator, a.denominator * b.numerator>>

\* Fraction.equals / lessThan / greaterThan: by cross-multiplication
equals(a, b) == a.numerator * b.denominator = b.numerator * a.denominator
lessThan(a, b) == a.numerator * b.denominator < b.numerator * a.denominator
greaterThan(a, b) == a.numerator * b.denominator > b.numerator * a.denominator

(***************************************************************************)
(* Tokens of the language, written out as characters.                      *)
(***************************************************************************)
tk_DUP == <<"D","U","P">>
tk_DROP == <<"D","R","O","P">>
tk_SWAP == <<"S","W","A","P">>
tk_ROT == <<"R","O","T">>
tk_CLEAR == <<"C","L","E","A","R">>
tk_toR == <<">","R">>
tk_fromR == <<"R",">">>
tk_Rat == <<"R","@">>
tk_Rplus == <<"R","+">>
tk_Rminus == <<"R","-">>
tk_Rtimes == <<"R","*">>
tk_Rdiv == <<"R","/">>
tk_RESET == <<"R","E","S","E","T">>
tk_FOLK == <<"F","O","L","K">>
tk_LOOP == <<"L","O","O","P">>
tk_plus == <<"+">>
tk_minus == <<"-">>
tk_times == <<"*">>
tk_div == <<"/">>
tk_DEF == <<"D","E","F">>
tk_DEL == <<"D","E","L">>
tk_eq == <<"=">>
tk_lt == <<"<">>
tk_gt == <<">">>
tk_ge == <<">","=">>
tk_le == <<"<","=">>
tk_open == <<"{">>
tk_close == <<"}">>
tk_space == <<" ">>
tk_lparen == <<"(">>
tk_rparen == <<")">>

\* the keys of builtinWords
BuiltinNames ==
    {tk_DUP, tk_DROP, tk_SWAP, tk_ROT, tk_CLEAR, tk_toR, tk_fromR, tk_Rat,
     tk_Rplus, tk_Rminus, tk_Rtimes, tk_Rdiv, tk_RESET, tk_FOLK, tk_LOOP,
     tk_plus, tk_minus, tk_times, tk_div, tk_DEF, tk_DEL, tk_eq, tk_lt, tk_gt,
     tk_ge, tk_le, tk_open, tk_close, tk_space}

(***************************************************************************)
(* tokenize: one pass over the characters, strings kept whole.             *)
(***************************************************************************)
RECURSIVE tokenizeFrom(_, _, _, _)
tokenizeFrom(code, currentToken, inString, toks) ==
    IF code = <<>>
    THEN IF Len(currentToken) > 0 THEN Append(toks, currentToken) ELSE toks
    ELSE LET char == Head(code)
             rest == Tail(code)
         IN  IF char = "\""
             THEN IF inString
                  THEN tokenizeFrom(rest, <<>>, FALSE,
                                    Append(toks, Append(currentToken, char)))
                  ELSE tokenizeFrom(rest, <<char>>, TRUE,
                                    IF Len(currentToken) > 0
                                    THEN Append(toks, currentToken) ELSE toks)
             ELSE IF inString
             THEN tokenizeFrom(rest, Append(currentToken, char), TRUE, toks)
             ELSE IF IsSpace(char)
             THEN tokenizeFrom(rest, <<>>, FALSE,
                               IF Len(currentToken) > 0
                               THEN Append(toks, currentToken) ELSE toks)
             ELSE tokenizeFrom(rest, Append(currentToken, char), FALSE, toks)

tokenize(code) == tokenizeFrom(code, <<>>, FALSE, <<>>)

RECURSIVE join(_, _)
\* Array.prototype.join
join(toks, sep) ==
    IF toks = <<>> THEN <<>>
    ELSE IF Len(toks) = 1 THEN toks[1]
    ELSE toks[1] \o sep \o join(Tail(toks), sep)

(***************************************************************************)
(* parseToken: the value a token pushes, null for a word, or an exception. *)
(***************************************************************************)
Returned(v) == [thrown |-> "none", value |-> v]
Thrown(msg) == [thrown |-> msg, value |-> Null]

startsAndEndsWithQuote(token) ==
    Len(token) > 0 /\ token[1] = "\"" /\ token[Len(token)] = "\""

parseToken(token) ==
    IF normalizeToken(token) \in BuiltinNames THEN Returned(Null)
    ELSE IF startsAndEndsWithQuote(token)
    THEN \* token.slice(1, -1)
         Returned(HolonString(IF Len(token) <= 2 THEN <<>>
                              ELSE SubSeq(token, 2, Len(token) - 1)))
    ELSE IF includes(token, "/")
    THEN LET parts == split(token, "/")
         IN  IF Len(parts) # 2 THEN Thrown("Invalid fraction format")
             ELSE LET numerator   == parseInt(parts[1])
                      denominator == parseInt(parts[2])
                  IN  IF numerator.isNaN \/ denominator.isNaN
                      THEN Thrown("Invalid fraction")
                      ELSE IF FractionThrows(numerator.val, denominator.val)
                      THEN Thrown("Division by zero")
                      ELSE Returned(Fraction(numerator.val, denominator.val))
    ELSE LET number == parseInt(token)
         IN  IF number.isNaN THEN Returned(Null)
             ELSE Returned(Fraction(number.val, 1))

(***************************************************************************)
(* Method calls on values.  A call a.m(b) on a HolonString a throws a      *)
(* TypeError (the method is undefined); on a Fraction a with a HolonString *)
(* b the arithmetic methods hand NaN to the constructor, whose gcd loop    *)
(* (while (b !== 0)) then never ends, and the comparisons compare NaN,     *)
(* which is false.                                                         *)
(***************************************************************************)
Value(v) == [result |-> "value", value |-> v, message |-> "none"]
Raise(msg) == [result |-> "throw", value |-> Null, message |-> msg]
Diverge == [result |-> "hang", value |-> Null, message |-> "none"]

NotAFunction == "TypeError: not a function"

construct(args) ==
    IF FractionThrows(args[1], args[2]) THEN Raise("Division by zero")
    ELSE Value(Fraction(args[1], args[2]))

\* an add that sums numerators and denominators separately
add_termwise(a, b) ==
    IF ~IsFraction(a) THEN Raise(NotAFunction)
    ELSE IF ~IsFraction(b) THEN Diverge
    ELSE construct(<<a.numerator + b.numerator, a.denominator + b.denominator>>)

add(a, b) ==
    IF ~IsFraction(a) THEN Raise(NotAFunction)
    ELSE IF ~IsFraction(b) THEN Diverge
    ELSE construct(addArgs(a, b))

subtract(a, b) ==
    IF ~IsFraction(a) THEN Raise(NotAFunction)
    ELSE IF ~IsFraction(b) THEN Diverge
    ELSE construct(subtractArgs(a, b))

multiply(a, b) ==
    IF ~IsFraction(a) THEN Raise(NotAFunction)
    ELSE IF ~IsFraction(b) THEN Diverge
    ELSE construct(multiplyArgs(a, b))

divide(a, b) ==
    IF ~IsFraction(a) THEN Raise(NotAFunction)
    ELSE IF ~IsFraction(b) THEN Diverge
    ELSE IF b.numerator = 0 THEN Raise("Division by zero")
    ELSE construct(divideArgs(a, b))

\* new Fraction(cond ? 1 : 0, 1) of a comparison a.m(b)
flag(a, b, holds) ==
    IF ~IsFraction(a) THEN Raise(NotAFunction)
    ELSE Value(Fraction(IF IsFraction(b) /\ holds THEN 1 ELSE 0, 1))

(***************************************************************************)
(* The built-in words: execute() of each, from a stack (top last) and a    *)
(* register to the stack and register it leaves and how it ends.           *)
(***************************************************************************)
Ok(st, reg) == [stack |-> st, register |-> reg, thrown |-> "none", hangs |-> FALSE]
Throw(st, reg, msg) == [stack |-> st, register |-> reg, thrown |-> msg, hangs |-> FALSE]
Hang(st, reg) == [stack |-> st, register |-> reg, thrown |-> "none", hangs |-> TRUE]

Top(st) == st[Len(st)]
\* the stack after n calls of state.stack.pop()
Pop(st, n) == SubSeq(st, 1, Len(st) - n)

Underflow == "Stack underflow"
RegisterEmpty == "Register is empty"

\* const b = pop(); const a = pop(); const result = a.m(b); push(result)
Binary(st, reg, r) ==
    IF r.result = "throw" THEN Throw(Pop(st, 2), reg, r.message)
    ELSE IF r.result = "hang" THEN Hang(Pop(st, 2), reg)
    ELSE Ok(Append(Pop(st, 2), r.value), reg)

\* state.register = state.register.m(state.stack.pop()): the argument is
\* evaluated, so the stack is popped, before the call is made
RegisterOp(st, reg, r) ==
    IF r.result = "throw" THEN Throw(Pop(st, 1), reg, r.message)
    ELSE IF r.result = "hang" THEN Hang(Pop(st, 1), reg)
    ELSE Ok(Pop(st, 1), r.value)

word_DUP(st, reg) ==
    IF Len(st) < 1 THEN Throw(st, reg, Underflow)
    ELSE Ok(Append(st, Top(st)), reg)

word_DROP(st, reg) ==
    IF Len(st) < 1 THEN Throw(st, reg, Underflow)
    ELSE Ok(Pop(st, 1), reg)

\* SWAP that empties the stack when it underflows
word_SWAP_emptiesOnUnderflow(st, reg) ==
    IF Len(st) < 2 THEN Throw(<<>>, reg, Underflow)
    ELSE LET a == st[Len(st)]
             b == st[Len(st) - 1]
         IN  Ok(Pop(st, 2) \o <<a, b>>, reg)

word_SWAP(st, reg) ==
    IF Len(st) < 2 THEN Throw(st, reg, Underflow)
    ELSE LET a == st[Len(st)]
             b == st[Len(st) - 1]
         IN  Ok(Pop(st, 2) \o <<a, b>>, reg)

word_ROT(st, reg) ==
    IF Len(st) < 3 THEN Throw(st, reg, Underflow)
    ELSE LET c == st[Len(st)]
             b == st[Len(st) - 1]
             a == st[Len(st) - 2]
         IN  Ok(Pop(st, 3) \o <<b, c, a>>, reg)

word_CLEAR(st, reg) == Ok(<<>>, reg)

\* >R that copies the top instead of moving it
word_toR_keepsTop(st, reg) ==
    IF Len(st) < 1 THEN Throw(st, reg, Underflow)
    ELSE Ok(st, Top(st))

word_toR(st, reg) ==
    IF Len(st) < 1 THEN Throw(st, reg, Underflow)
    ELSE Ok(Pop(st, 1), Top(st))

\* R> that empties the register
word_fromR_clears(st, reg) ==
    IF reg = Null THEN Throw(st, reg, RegisterEmpty)
    ELSE Ok(Append(st, reg), Null)

word_fromR(st, reg) ==
    IF reg = Null THEN Throw(st, reg, RegisterEmpty)
    ELSE Ok(Append(st, reg), reg)

\* R@ that reads the register instead of writing it
word_Rat_reads(st, reg) ==
    IF reg = Null THEN Throw(st, reg, RegisterEmpty)
    ELSE Ok(Append(st, reg), reg)

word_Rat(st, reg) ==
    IF Len(st) < 1 THEN Throw(st, reg, Underflow)
    ELSE Ok(st, Top(st))

word_Rplus(st, reg) ==
    IF Len(st) < 1 THEN Throw(st, reg, Underflow)
    ELSE IF reg = Null THEN Throw(st, reg, RegisterEmpty)
    ELSE RegisterOp(st, reg, add(reg, Top(st)))

word_Rminus(st, reg) ==
    IF Len(st) < 1 THEN Throw(st, reg, Underflow)
    ELSE IF reg = Null THEN Throw(st, reg, RegisterEmpty)
    ELSE RegisterOp(st, reg, subtract(reg, Top(st)))

word_Rtimes(st, reg) ==
    IF Len(st) < 1 THEN Throw(st, reg, Underflow)
    ELSE IF reg = Null THEN Throw(st, reg, RegisterEmpty)
    ELSE RegisterOp(st, reg, multiply(reg, Top(st)))

word_Rdiv(st, reg) ==
    IF Len(st) < 1 THEN Throw(st, reg, Underflow)
    ELSE IF reg = Null THEN Throw(st, reg, RegisterEmpty)
    ELSE RegisterOp(st, reg, divide(reg, Top(st)))

word_RESET(st, reg) == Ok(st, Null)

SkipWord == "SKIP_WORD"

\* a FOLK that never skips
word_FOLK_continues(st, reg) == Ok(st, reg)

word_FOLK(st, reg) ==
    IF reg = Null THEN Throw(st, reg, SkipWord) ELSE Ok(st, reg)

word_plus(st, reg) ==
    IF Len(st) < 2 THEN Throw(st, reg, Underflow)
    ELSE Binary(st, reg, add(st[Len(st) - 1], Top(st)))

word_minus(st, reg) ==
    IF Len(st) < 2 THEN Throw(st, reg, Underflow)
    ELSE Binary(st, reg, subtract(st[Len(st) - 1], Top(st)))

word_times(st, reg) ==
    IF Len(st) < 2 THEN Throw(st, reg, Underflow)
    ELSE Binary(st, reg, multiply(st[Len(st) - 1], Top(st)))

word_div(st, reg) ==
    IF Len(st) < 2 THEN Throw(st, reg, Underflow)
    ELSE Binary(st, reg, divide(st[Len(st) - 1], Top(st)))

word_eq(st, reg) ==
    IF Len(st) < 2 THEN Throw(st, reg, Underflow)
    ELSE LET a == st[Len(st) - 1]
             b == Top(st)
         IN  Binary(st, reg, flag(a, b, equals(a, b)))

word_lt(st, reg) ==
    IF Len(st) < 2 THEN Throw(st, reg, Underflow)
    ELSE LET a == st[Len(st) - 1]
             b == Top(st)
         IN  Binary(st, reg, flag(a, b, lessThan(a, b)))

word_gt(st, reg) ==
    IF Len(st) < 2 THEN Throw(st, reg, Underflow)
    ELSE LET a == st[Len(st) - 1]
             b == Top(st)
         IN  Binary(st, reg, flag(a, b, greaterThan(a, b)))

word_ge(st, reg) ==
    IF Len(st) < 2 THEN Throw(st, reg, Underflow)
    ELSE LET a == st[Len(st) - 1]
             b == Top(st)
         IN  Binary(st, reg, flag(a, b, greaterThan(a, b) \/ equals(a, b)))

word_le(st, reg) ==
    IF Len(st) < 2 THEN Throw(st, reg, Underflow)
    ELSE LET a == st[Len(st) - 1]
             b == Top(st)
         IN  Binary(st, reg, flag(a, b, lessThan(a, b) \/ equals(a, b)))

\* DEF, DEL, {, } and the space: execute() only logs
word_noop(st, reg) == Ok(st, reg)

\* builtinWords[name].execute() for every built-in but LOOP, which calls
\* interpret and is part of the interpreter's step
execute(name, st, reg) ==
    CASE name = tk_DUP    -> word_DUP(st, reg)
      [] name = tk_DROP   -> word_DROP(st, reg)
      [] name = tk_SWAP   -> word_SWAP(st, reg)
      [] name = tk_ROT    -> word_ROT(st, reg)
      [] name = tk_CLEAR  -> word_CLEAR(st, reg)
      [] name = tk_toR    -> word_toR(st, reg)
      [] name = tk_fromR  -> word_fromR(st, reg)
      [] name = tk_Rat    -> word_Rat(st, reg)
      [] name = tk_Rplus  -> word_Rplus(st, reg)
      [] name = tk_Rminus -> word_Rminus(st, reg)
      [] name = tk_Rtimes -> word_Rtimes(st, reg)
      [] name = tk_Rdiv   -> word_Rdiv(st, reg)
      [] name = tk_RESET  -> word_RESET(st, reg)
      [] name = tk_FOLK   -> word_FOLK(st, reg)
      [] name = tk_plus   -> word_plus(st, reg)
      [] name = tk_minus  -> word_minus(st, reg)
      [] name = tk_times  -> word_times(st, reg)
      [] name = tk_div    -> word_div(st, reg)
      [] name = tk_eq     -> word_eq(st, reg)
      [] name = tk_lt     -> word_lt(st, reg)
      [] name = tk_gt     -> word_gt(st, reg)
      [] name = tk_ge     -> word_ge(st, reg)
      [] name = tk_le     -> word_le(st, reg)
      [] OTHER            -> word_noop(st, reg)

(***************************************************************************)
(* state.customWords: the entries in insertion order (the order of         *)
(* Object.keys and Object.entries), each with its key.                     *)
(***************************************************************************)
\* arrays are indexed from 0 in the source
At(s, k) == s[k + 1]

HasWord(cw, name) == \E k \in 1..Len(cw) : cw[k].name = name
WordOf(cw, name) == cw[CHOOSE k \in 1..Len(cw) : cw[k].name = name]
WordNames(cw) == {cw[k].name : k \in 1..Len(cw)}

\* state.customWords[name] = { body, stackEffect }
setWord(cw, name, body, stackEffect) ==
    LET entry == [name |-> name, body |-> body, stackEffect |-> stackEffect]
    IN  IF HasWord(cw, name)
        THEN [k \in 1..Len(cw) |-> IF cw[k].name = name THEN entry ELSE cw[k]]
        ELSE Append(cw, entry)

\* delete state.customWords[name]
deleteWord(cw, name) == SelectSeq(cw, LAMBDA e : e.name # name)

(***************************************************************************)
(* analyzeDependencies and isWordReferencedByOthers.                       *)
(***************************************************************************)
\* a referrer listed once for every mention
notYetListed_always(list, wordName) == TRUE

\* !referencedBy[normalizedToken].includes(wordName)
notYetListed(list, wordName) == ~includes(list, wordName)

RECURSIVE scanBody(_, _, _, _, _)
\* body.forEach(token => ...) of the word wordName, as far as the list
\* referencedBy[target] is concerned
scanBody(cw, body, wordName, target, list) ==
    IF body = <<>> THEN list
    ELSE LET normalizedToken == normalizeToken(Head(body))
         IN  scanBody(cw, Tail(body), wordName, target,
                      IF /\ HasWord(cw, normalizedToken)
                         /\ normalizedToken = target
                         /\ notYetListed(list, wordName)
                      THEN Append(list, wordName)
                      ELSE list)

RECURSIVE scanWords(_, _, _, _)
\* Object.keys(state.customWords).forEach(wordName => ...)
scanWords(cw, words, target, list) ==
    IF words = <<>> THEN list
    ELSE scanWords(cw, Tail(words), target,
                   scanBody(cw, Head(words).body, Head(words).name, target, list))

\* the referencedBy map that analyzeDependencies returns
referencedBy(cw) == [name \in WordNames(cw) |-> scanWords(cw, cw, name, <<>>)]

\* referencedBy[normalizedWordName]?.length > 0
isWordReferencedByOthers(cw, wordName) ==
    LET normalizedWordName == normalizeToken(wordName)
    IN  /\ normalizedWordName \in DOMAIN referencedBy(cw)
        /\ Len(referencedBy(cw)[normalizedWordName]) > 0

(***************************************************************************)
(* parse: one turn of its while loop.                                      *)
(***************************************************************************)
\* a line of state.output: `${prefix}${message} "${word}" ...\n`
Line(prefix, message, word) == [prefix |-> prefix, message |-> message, word |-> word]

RECURSIVE closeBlock(_, _, _)
\* while (j < tokens.length && depth > 0) { ...; j++ }
closeBlock(toks, j, depth) ==
    IF j < Len(toks) /\ depth > 0
    THEN LET t  == normalizeToken(At(toks, j))
             d1 == IF t = tk_open THEN depth + 1 ELSE depth
             d2 == IF t = tk_close THEN d1 - 1 ELSE d1
         IN  closeBlock(toks, j + 1, d2)
    ELSE [j |-> j, depth |-> depth]

RECURSIVE closeComment(_, _)
\* while (l < tokens.length && tokens[l] !== ")") l++
closeComment(toks, l) ==
    IF l < Len(toks) /\ At(toks, l) # tk_rparen
    THEN closeComment(toks, l + 1) ELSE l

RECURSIVE findDef(_, _, _)
\* for (let k = j; k < tokens.length; k++): the first DEF or DEL after the
\* block, and the last stack effect comment before it
findDef(toks, k, stackEffect) ==
    IF k >= Len(toks) THEN [defIndex |-> -1, stackEffect |-> stackEffect]
    ELSE IF normalizeToken(At(toks, k)) \in {tk_DEF, tk_DEL}
    THEN [defIndex |-> k, stackEffect |-> stackEffect]
    ELSE IF At(toks, k) = tk_lparen /\ k < Len(toks) - 1
    THEN LET l == closeComment(toks, k + 1)
         IN  IF l < Len(toks)
             THEN findDef(toks, l + 1, join(SubSeq(toks, k + 2, l), <<" ">>))
             ELSE findDef(toks, k + 1, stackEffect)
    ELSE findDef(toks, k + 1, stackEffect)

\* what one turn of the loop leaves
Parsed(i, prog, cw, out) ==
    [thrown |-> "none", i |-> i, program |-> prog, customWords |-> cw, output |-> out]
ParseError(msg, i, prog, cw, out) ==
    [thrown |-> msg, i |-> i, program |-> prog, customWords |-> cw, output |-> out]

\* if (isDefine) { ... }: DEF of the block form
blockDEF(cw, out, normalizedWordName, bodyTokens, stackEffect) ==
    IF HasWord(cw, normalizedWordName) /\ isWordReferencedByOthers(cw, normalizedWordName)
    THEN [customWords |-> cw,
          output |-> Append(out, Line("Error: ", "Cannot redefine", normalizedWordName))]
    ELSE [customWords |-> setWord(cw, normalizedWordName, bodyTokens, stackEffect),
          output |-> out]

\* else { ... }: DEL of the block form
blockDEL(cw, out, normalizedWordName) ==
    IF isWordReferencedByOthers(cw, normalizedWordName)
    THEN [customWords |-> cw,
          output |-> Append(out, Line("Error: ", "Cannot delete", normalizedWordName))]
    ELSE [customWords |-> deleteWord(cw, normalizedWordName), output |-> out]

\* the short form without the test for referrers
shortDEL_unchecked(cw, out, wordName) ==
    [customWords |-> deleteWord(cw, wordName), output |-> out]

\* if (isWordReferencedByOthers(wordName)) ... else delete: the short form
shortDEL(cw, out, wordName) ==
    IF isWordReferencedByOthers(cw, wordName)
    THEN [customWords |-> cw,
          output |-> Append(out, Line("Error: ", "Cannot delete", wordName))]
    ELSE [customWords |-> deleteWord(cw, wordName), output |-> out]

\* the rest of a turn, from the test for the short form of DEL on
parseRest(toks, i, prog, cw, out) ==
    LET token == At(toks, i)
    IN  IF /\ normalizeToken(token) = tk_DEL
           /\ i > 0
           /\ HasWord(cw, normalizeToken(At(toks, i - 1)))
        THEN LET r == shortDEL(cw, out, normalizeToken(At(toks, i - 1)))
             IN  Parsed(i + 1, prog, r.customWords, r.output)
        ELSE IF token # tk_lparen /\ token # tk_rparen
        THEN Parsed(i + 1, Append(prog, token), cw, out)
        ELSE Parsed(i + 1, prog, cw, out)

\* one turn of while (i < tokens.length) in parse
parseTurn(toks, i, prog, cw, out) ==
    IF normalizeToken(At(toks, i)) = tk_open
    THEN IF i <= 0
         THEN ParseError("No word name before block start", i, prog, cw, out)
         ELSE LET wordName == At(toks, i - 1)
                  prog1 == IF Len(prog) > 0 /\ prog[Len(prog)] = wordName
                           THEN SubSeq(prog, 1, Len(prog) - 1) ELSE prog
                  closed == closeBlock(toks, i + 1, 1)
                  j == closed.j
                  bodyTokens == SubSeq(toks, i + 2, j - 1)
                  found == findDef(toks, j, <<>>)
              IN  IF closed.depth # 0
                  THEN ParseError("Unclosed block", i, prog1, cw, out)
                  ELSE IF found.defIndex # -1
                  THEN LET normalizedWordName == normalizeToken(wordName)
                           isDefine == normalizeToken(At(toks, found.defIndex)) = tk_DEF
                           r == IF isDefine
                                THEN blockDEF(cw, out, normalizedWordName,
                                              bodyTokens, found.stackEffect)
                                ELSE blockDEL(cw, out, normalizedWordName)
                       IN  Parsed(found.defIndex + 1, prog1, r.customWords, r.output)
                  ELSE parseRest(toks, i, prog1, cw, out)
    ELSE parseRest(toks, i, prog, cw, out)

(***************************************************************************)
(* src/script.js: the combinator-based evaluator.  One dictionary maps a   *)
(* normalized name to a value: a Combinator (every built-in) or the        *)
(* Expression that a DEF has parsed.                                       *)
(***************************************************************************)
sk_I == <<"I">>
sk_K == <<"K">>
sk_S == <<"S">>
sk_ADD == <<"A","D","D">>
sk_SUB == <<"S","U","B">>
sk_MUL == <<"M","U","L">>
sk_DIV == <<"D","I","V">>
sk_EQ == <<"E","Q">>
sk_LT == <<"L","T">>
sk_GT == <<"G","T">>
sk_PRINT == <<"P","R","I","N","T">>
sk_PRINTLN == <<"P","R","I","N","T","L","N">>
sk_TRUE == <<"T","R","U","E">>
sk_FALSE == <<"F","A","L","S","E">>
sk_IF == <<"I","F">>
sk_Y == <<"Y">>

\* the names that initializeBuiltins defines
Combinators ==
    {sk_I, sk_K, sk_S, sk_ADD, sk_SUB, sk_MUL, sk_DIV, sk_EQ, sk_LT, sk_GT,
     sk_PRINT, sk_PRINTLN, sk_TRUE, sk_FALSE, sk_IF, sk_Y}

\* new Combinator(apply, { name, description, isBuiltin: true })
Combinator(name) == [kind |-> "Combinator", name |-> name, isBuiltin |-> TRUE]

\* new Expression(operator, operands)
Expression(operator, operands) ==
    [kind |-> "Expression", operator |-> operator, operands |-> operands]

\* state.dictionary after initializeBuiltins()
initializeBuiltins == [name \in Combinators |-> Combinator(name)]

\* dictionaryOps.define: state.dictionary[normalizedName] = value
define(dict, name, value) ==
    LET normalizedName == normalizeToken(name)
    IN  [n \in DOMAIN dict \cup {normalizedName} |->
            IF n = normalizedName THEN value ELSE dict[n]]

\* dictionaryOps.lookup: the value, or null for a name that is not defined
lookup(dict, name) ==
    LET normalizedName == normalizeToken(name)
    IN  IF normalizedName \in DOMAIN dict THEN dict[normalizedName] ELSE Null

\* dictionaryOps.remove: deletes whatever entry the name has
remove(dict, name) ==
    LET normalizedName == normalizeToken(name)
    IN  IF normalizedName \in DOMAIN dict
        THEN [dictionary |-> [n \in DOMAIN dict \ {normalizedName} |-> dict[n]],
              success    |-> TRUE]
        ELSE [dictionary |-> dict, success |-> FALSE]

RECURSIVE tokenizeScriptFrom(_, _, _, _, _)
\* tokenize of script.js: comments from # to the end of the line, strings
\* kept whole, parentheses tokens of their own
tokenizeScriptFrom(code, currentToken, inString, inComment, toks) ==
    LET flushed == IF Len(currentToken) > 0 THEN Append(toks, currentToken)
                   ELSE toks
    IN  IF code = <<>> THEN flushed
        ELSE LET char == Head(code)
                 rest == Tail(code)
             IN  IF char = "#" /\ ~inString
                 THEN tokenizeScriptFrom(rest, <<>>, inString, TRUE, flushed)
                 ELSE IF inComment
                 THEN tokenizeScriptFrom(rest, currentToken, inString,
                                         char # "\n", toks)
                 ELSE IF char = "\""
                 THEN IF inString
                      THEN tokenizeScriptFrom(rest, <<>>, FALSE, FALSE,
                                              Append(toks, Append(currentToken, char)))
                      ELSE tokenizeScriptFrom(rest, <<char>>, TRUE, FALSE, flushed)
                 ELSE IF inString
                 THEN tokenizeScriptFrom(rest, Append(currentToken, char), TRUE,
                                         FALSE, toks)
                 ELSE IF IsSpace(char)
                 THEN tokenizeScriptFrom(rest, <<>>, FALSE, FALSE, flushed)
                 ELSE IF char \in {"(", ")"}
                 THEN tokenizeScriptFrom(rest, <<>>, FALSE, FALSE,
                                         Append(flushed, <<char>>))
                 ELSE tokenizeScriptFrom(rest, Append(currentToken, char), FALSE,
                                         FALSE, toks)

tokenizeScript(code) == tokenizeScriptFrom(code, <<>>, FALSE, FALSE, <<>>)

AllDigits(s) == Len(s) > 0 /\ \A k \in 1..Len(s) : IsDigit(s[k])

\* /^-?\d+(\.\d+)?$/.test(token)
IsNumberLiteral(token) ==
    LET body  == IF token # <<>> /\ Head(token) = "-" THEN Tail(token) ELSE token
        parts == split(body, ".")
    IN  \/ AllDigits(body)
        \/ Len(parts) = 2 /\ AllDigits(parts[1]) /\ AllDigits(parts[2])

\* the outcomes of parsing: an expression and the index of its last token,
\* an exception with the token it names, or a loop that never ends
ParsedTo(expr, endIndex) ==
    [thrown |-> "none", word |-> <<>>, hangs |-> FALSE, expr |-> expr,
     endIndex |-> endIndex]
ParseThrows(msg, word) ==
    [thrown |-> msg, word |-> word, hangs |-> FALSE, expr |-> Null, endIndex |-> 0]
ParseHangs ==
    [thrown |-> "none", word |-> <<>>, hangs |-> TRUE, expr |-> Null, endIndex |-> 0]
Fails(r) == r.thrown # "none" \/ r.hangs

IsLiteral(token) ==
    IsNumberLiteral(token) \/ includes(token, "/") \/ startsAndEndsWithQuote(token)

\* The literal cases shared by parse and parseExpression: a number, a
\* fraction n/d, a string.  new Fraction with a NaN argument never leaves
\* its gcd loop unless the denominator is 0, which throws first.
literal(token, endIndex) ==
    IF IsNumberLiteral(token)
    THEN ParsedTo(Fraction(parseInt(token).val, 1), endIndex)
    ELSE IF includes(token, "/")
    THEN LET parts == split(token, "/")
             num   == parseInt(parts[1])
             denom == parseInt(parts[2])
         IN  IF ~denom.isNaN /\ FractionThrows(num.val, denom.val)
             THEN ParseThrows("Division by zero", <<>>)
             ELSE IF num.isNaN \/ denom.isNaN THEN ParseHangs
             ELSE ParsedTo(Fraction(num.val, denom.val), endIndex)
    ELSE ParsedTo(HolonString(IF Len(token) <= 2 THEN <<>>
                              ELSE SubSeq(token, 2, Len(token) - 1)), endIndex)

RECURSIVE parseExpression(_, _, _)
RECURSIVE parseOperands(_, _, _, _)

\* while (i < tokens.length && tokens[i] !== ')') in parseExpression
parseOperands(toks, i, operands, dict) ==
    IF i < Len(toks) /\ At(toks, i) # tk_rparen
    THEN LET r == parseExpression(toks, i, dict)
         IN  IF Fails(r) THEN r
             ELSE parseOperands(toks, r.endIndex + 1, Append(operands, r.expr), dict)
    ELSE ParsedTo(operands, i)

\* parseExpression(tokens, startIndex): a literal, a dictionary word (its
\* value at the time of parsing), or ( operator operand ... )
parseExpression(toks, startIndex, dict) ==
    LET token == At(toks, startIndex)
    IN  IF token # tk_lparen
        THEN IF IsLiteral(token) THEN literal(token, startIndex)
             ELSE LET word == lookup(dict, normalizeToken(token))
                  IN  IF word # Null THEN ParsedTo(word, startIndex)
                      ELSE ParseThrows("Unknown token: ", token)
        ELSE IF startIndex + 1 >= Len(toks)
        THEN ParseThrows("Unexpected end of input", <<>>)
        ELSE LET operator == parseExpression(toks, startIndex + 1, dict)
                 operands == parseOperands(toks, operator.endIndex + 1, <<>>, dict)
             IN  IF Fails(operator) THEN operator
                 ELSE IF Fails(operands) THEN operands
                 ELSE IF operands.endIndex >= Len(toks)
                         \/ At(toks, operands.endIndex) # tk_rparen
                 THEN ParseThrows("Unclosed expression", <<>>)
                 ELSE ParsedTo(Expression(operator.expr, operands.expr),
                               operands.endIndex)

\* parseDefinition for at least 4 tokens that start with DEF (with fewer it
\* returns null): the parsed expression is stored under the name
parseDefinition(toks, dict) ==
    LET name             == At(toks, 1)
        expressionTokens == SubSeq(toks, 3, Len(toks))
        r                == parseExpression(expressionTokens, 0, dict)
    IN  IF At(expressionTokens, 0) # tk_lparen
        THEN [parsed |-> ParseThrows("Expected an expression after word name in DEF", <<>>),
              dictionary |-> dict]
        ELSE [parsed |-> r,
              dictionary |-> IF Fails(r) THEN dict ELSE define(dict, name, r.expr)]

\* parseDeleteCommand for at least 2 tokens that start with DEL (with fewer
\* it returns null)
parseDeleteCommand(toks, dict) ==
    LET wordName       == At(toks, 1)
        normalizedName == normalizeToken(wordName)
    IN  remove(dict, normalizedName)

\* parse for a source that is neither a definition nor a deletion: one
\* token is a literal or a dictionary word; no token at all is parsed as ( )
parseSingle(toks, dict) ==
    IF Len(toks) = 0
    THEN parseExpression(<<tk_lparen, tk_rparen>>, 0, dict)
    ELSE LET token == At(toks, 0)
         IN  IF IsLiteral(token) THEN literal(token, 0)
             ELSE LET word == lookup(dict, normalizeToken(token))
                  IN  IF word # Null THEN ParsedTo(word, 0)
                      ELSE ParseThrows("Unknown word: ", token)

RECURSIVE decimal(_)
\* the decimal digits of a natural number
decimal(n) ==
    IF n < 10 THEN <<Digits[n + 1]>>
    ELSE Append(decimal(n \div 10), Digits[(n % 10) + 1])

\* toString of a Fraction, a HolonString and a Combinator
toString(v) ==
    CASE v.kind = "Fraction" ->
           (IF v.numerator < 0 THEN <<"-">> ELSE <<>>)
             \o decimal(Abs(v.numerator))
             \o (IF v.denominator = 1 THEN <<>>
                 ELSE <<"/">> \o decimal(v.denominator))
      [] v.kind = "HolonString" -> <<"\"">> \o v.value \o <<"\"">>
      [] v.kind = "Combinator" -> <<"<">> \o v.name \o <<">">>

\* a piece of state.output: a text and whether a "\n" ends it
Chunk(prefix, message, word, newline) ==
    [prefix |-> prefix, message |-> message, word |-> word, newline |-> newline]

\* the welcome message that init() leaves in state.output
Welcome == Chunk("", "Holon Combinatory Logic", <<>>, TRUE)

\* The sources whose execution applies no combinator: a definition, a
\* deletion, or at most one token that is no user-defined Expression.
\* (Everything else reaches Expression.evaluate or Combinator.apply.)
Applies(code, dict) ==
    LET toks  == tokenizeScript(code)
        first == IF Len(toks) > 0 THEN normalizeToken(At(toks, 0)) ELSE <<>>
    IN  /\ first \notin {tk_DEF, tk_DEL}
        /\ \/ Len(toks) >= 2
           \/ Len(toks) = 1 /\ ~Fails(parseSingle(toks, dict))
                /\ parseSingle(toks, dict).expr.kind = "Expression"

\* executeCode of script.js for a source that applies no combinator: the
\* dictionary and the output it leaves, or a loop that never ends
executeScript(code, dict, out) ==
    LET toks  == tokenizeScript(code)
        first == IF Len(toks) > 0 THEN normalizeToken(At(toks, 0)) ELSE <<>>
        Done(d, o) == [dictionary |-> d, output |-> o, hangs |-> FALSE]
        Hung == [dictionary |-> dict, output |-> out, hangs |-> TRUE]
        \* catch (error) { state.output += `Error: ${error.message}\n`; }
        Caught(r, o) ==
            Done(dict, Append(o, Chunk("Error: ", r.thrown, r.word, TRUE)))
        \* if (state.output.length > 0 && !state.output.endsWith('\n'))
        separated == IF Len(out) > 0 /\ ~out[Len(out)].newline
                     THEN Append(out, Chunk("", "", <<>>, TRUE)) ELSE out
        \* state.output += finalResult.toString()
        Result(r) ==
            IF r.hangs THEN Hung
            ELSE IF r.thrown # "none" THEN Caught(r, out)
            ELSE Done(dict, Append(separated, Chunk("", "", toString(r.expr), FALSE)))
        \* parse returned null: null.toString() throws a TypeError
        OfNull == Caught(ParseThrows("TypeError: null has no toString", <<>>),
                         separated)
    IN  IF first = tk_DEF
        THEN IF Len(toks) < 4 THEN OfNull
             ELSE LET d == parseDefinition(toks, dict)
                  IN  IF d.parsed.hangs THEN Hung
                      ELSE IF d.parsed.thrown # "none" THEN Caught(d.parsed, out)
                      ELSE Done(d.dictionary,
                                Append(out, Chunk("", "Defined: ", At(toks, 1), TRUE)))
        ELSE IF first = tk_DEL
        THEN IF Len(toks) < 2 THEN OfNull
             ELSE LET d == parseDeleteCommand(toks, dict)
                  IN  Done(d.dictionary,
                           Append(out, IF d.success
                                       THEN Chunk("", "Removed: ", At(toks, 1), TRUE)
                                       ELSE Chunk("", "Word not found: ", At(toks, 1), TRUE)))
        ELSE Result(parseSingle(toks, dict))

(***************************************************************************)
(* src/unnamed/part_002: the stack language with a dictionary.  Fraction,  *)
(* HolonString and normalizeToken are those of part_003.                   *)
(***************************************************************************)
fk_OVER == <<"O","V","E","R">>

\* the names that initializeBuiltins defines
ForthBuiltinNames ==
    {tk_DUP, tk_DROP, tk_SWAP, fk_OVER, tk_ROT, tk_plus, tk_minus, tk_times,
     tk_div, sk_IF, tk_DEF, tk_DEL, sk_PRINTLN}

\* an entry of state.dictionary; func is a function (a built-in word) or a
\* string (the body of a custom word)
Entry(func, isBuiltin) == [func |-> func, isBuiltin |-> isBuiltin]
NativeFunction(name) == [kind |-> "function", name |-> name]
BodyString(text) == [kind |-> "string", value |-> text]

\* state.dictionary after initializeBuiltins()
initializeBuiltinsForth ==
    [name \in ForthBuiltinNames |-> Entry(NativeFunction(name), TRUE)]

\* dictionaryOps.define
defineForth(dict, name, func, isBuiltin) ==
    LET normalizedName == normalizeToken(name)
    IN  [n \in DOMAIN dict \cup {normalizedName} |->
            IF n = normalizedName THEN Entry(func, isBuiltin) ELSE dict[n]]

\* dictionaryOps.lookup
lookupForth(dict, name) ==
    LET normalizedName == normalizeToken(name)
    IN  IF normalizedName \in DOMAIN dict THEN dict[normalizedName].func ELSE Null

\* dictionaryOps.remove: a built-in word is not removed
removeForth(dict, name) ==
    LET normalizedName == normalizeToken(name)
    IN  IF normalizedName \in DOMAIN dict /\ ~dict[normalizedName].isBuiltin
        THEN [dictionary |-> [n \in DOMAIN dict \ {normalizedName} |-> dict[n]],
              success    |-> TRUE]
        ELSE [dictionary |-> dict, success |-> FALSE]

RECURSIVE TrimRight(_)
TrimRight(s) ==
    IF s # <<>> /\ IsSpace(s[Len(s)]) THEN TrimRight(SubSeq(s, 1, Len(s) - 1))
    ELSE s

\* String.prototype.trim
Trim(s) == TrimRight(TrimLeft(s))

RECURSIVE tokenizeForthFrom(_, _, _, _, _, _, _)
\* tokenize of part_002: after a token DEF immediately followed by {, the
\* text up to the next } is one token; comments run from # to the end of the
\* line; strings are kept whole
tokenizeForthFrom(code, currentToken, inString, inComment, inDefinition, definitionBody, toks) ==
    LET flushed == IF Len(currentToken) > 0 THEN Append(toks, currentToken)
                   ELSE toks
    IN  IF code = <<>> THEN flushed
        ELSE LET char == Head(code)
                 rest == Tail(code)
             IN  IF inDefinition
                 THEN IF char = "}"
                      THEN tokenizeForthFrom(rest, currentToken, inString, inComment,
                                             FALSE, <<>>,
                                             Append(toks, Trim(definitionBody)))
                      ELSE tokenizeForthFrom(rest, currentToken, inString, inComment,
                                             TRUE, Append(definitionBody, char), toks)
                 ELSE IF char = "#" /\ ~inString
                 THEN tokenizeForthFrom(rest, <<>>, inString, TRUE, FALSE,
                                        definitionBody, flushed)
                 ELSE IF inComment
                 THEN tokenizeForthFrom(rest, currentToken, inString, char # "\n",
                                        FALSE, definitionBody, toks)
                 ELSE IF char = "\""
                 THEN IF inString
                      THEN tokenizeForthFrom(rest, <<>>, FALSE, FALSE, FALSE,
                                             definitionBody,
                                             Append(toks, Append(currentToken, char)))
                      ELSE tokenizeForthFrom(rest, <<char>>, TRUE, FALSE, FALSE,
                                             definitionBody, flushed)
                 ELSE IF inString
                 THEN tokenizeForthFrom(rest, Append(currentToken, char), TRUE,
                                        FALSE, FALSE, definitionBody, toks)
                 ELSE IF normalizeToken(currentToken) = tk_DEF /\ char = "{"
                 THEN tokenizeForthFrom(rest, <<>>, FALSE, FALSE, TRUE,
                                        definitionBody, Append(toks, currentToken))
                 ELSE IF IsSpace(char)
                 THEN tokenizeForthFrom(rest, <<>>, FALSE, FALSE, FALSE,
                                        definitionBody, flushed)
                 ELSE tokenizeForthFrom(rest, Append(currentToken, char), FALSE,
                                        FALSE, FALSE, definitionBody, toks)

tokenizeForth(code) ==
    tokenizeForthFrom(code, <<>>, FALSE, FALSE, FALSE, <<>>, <<>>)

\* what the function of a built-in word leaves: the stack, the output and
\* the message of the exception it throws ("none" if none)
ForthOk(st, out) == [stack |-> st, output |-> out, thrown |-> "none"]
ForthThrow(st, out, msg) == [stack |-> st, output |-> out, thrown |-> msg]

\* + - * /: both operands are popped, then their types are tested
forthArithmetic(name, st, out) ==
    LET b == st[Len(st)]
        a == st[Len(st) - 1]
        rest == Pop(st, 2)
        args == CASE name = tk_plus  -> addArgs(a, b)
                  [] name = tk_minus -> subtractArgs(a, b)
                  [] name = tk_times -> multiplyArgs(a, b)
                  [] name = tk_div   -> divideArgs(a, b)
        short == CASE name = tk_plus  -> "+ requires two numbers on the stack"
                   [] name = tk_minus -> "- requires two numbers on the stack"
                   [] name = tk_times -> "* requires two numbers on the stack"
                   [] name = tk_div   -> "/ requires two numbers on the stack"
        mistyped == CASE name = tk_plus  -> "+ requires numeric arguments"
                      [] name = tk_minus -> "- requires numeric arguments"
                      [] name = tk_times -> "* requires numeric arguments"
                      [] name = tk_div   -> "/ requires numeric arguments"
    IN  IF Len(st) < 2 THEN ForthThrow(st, out, short)
        ELSE IF ~(IsFraction(a) /\ IsFraction(b))
        THEN ForthThrow(rest, out, mistyped)
        ELSE IF name = tk_div /\ b.numerator = 0
        THEN ForthThrow(rest, out, "Division by zero")
        ELSE ForthOk(Append(rest, Fraction(args[1], args[2])), out)

\* the IF word: ( condition trueCase falseCase -- trueCase | falseCase )
forthIF(st, out) ==
    LET falseCase == st[Len(st)]
        trueCase  == st[Len(st) - 1]
        condition == st[Len(st) - 2]
        rest      == Pop(st, 3)
    IN  IF Len(st) < 3 THEN ForthThrow(st, out, "IF requires three items on the stack")
        ELSE IF IsFraction(condition) /\ condition.numerator # 0
        THEN ForthOk(Append(rest, trueCase), out)
        ELSE ForthOk(Append(rest, falseCase), out)

\* the functions that initializeBuiltins stores in the dictionary
forthWord(name, st, out) ==
    CASE name = tk_DUP ->
           IF Len(st) < 1
           THEN ForthThrow(st, out, "DUP requires at least one item on the stack")
           ELSE ForthOk(Append(st, Top(st)), out)
      [] name = tk_DROP ->
           IF Len(st) < 1
           THEN ForthThrow(st, out, "DROP requires at least one item on the stack")
           ELSE ForthOk(Pop(st, 1), out)
      [] name = tk_SWAP ->
           IF Len(st) < 2
           THEN ForthThrow(st, out, "SWAP requires at least two items on the stack")
           ELSE ForthOk(Pop(st, 2) \o <<st[Len(st)], st[Len(st) - 1]>>, out)
      [] name = fk_OVER ->
           IF Len(st) < 2
           THEN ForthThrow(st, out, "OVER requires at least two items on the stack")
           ELSE ForthOk(Append(st, st[Len(st) - 1]), out)
      [] name = tk_ROT ->
           IF Len(st) < 3
           THEN ForthThrow(st, out, "ROT requires at least three items on the stack")
           ELSE ForthOk(Pop(st, 3)
                          \o <<st[Len(st) - 1], st[Len(st)], st[Len(st) - 2]>>, out)
      [] name \in {tk_plus, tk_minus, tk_times, tk_div} ->
           forthArithmetic(name, st, out)
      [] name = sk_IF -> forthIF(st, out)
      [] name \in {tk_DEF, tk_DEL} -> ForthOk(st, out)
      [] name = sk_PRINTLN ->
           IF Len(st) < 1
           THEN ForthThrow(st, out, "PRINTLN requires at least one item on the stack")
           ELSE ForthOk(Pop(st, 1),
                        Append(out, Line("", "", IF Top(st).kind = "HolonString"
                                                 THEN Top(st).value
                                                 ELSE toString(Top(st)))))

\* what evaluate leaves: the stack, the dictionary and the output; hangs: a
\* loop that never ends was entered; deep: more than MaxDepth nested calls
Evaluated(st, dict, out) ==
    [stack |-> st, dictionary |-> dict, output |-> out, hangs |-> FALSE,
     deep |-> FALSE]
EvaluateHangs(st, dict, out) ==
    [stack |-> st, dictionary |-> dict, output |-> out, hangs |-> TRUE,
     deep |-> FALSE]
EvaluateDeep(st, dict, out) ==
    [stack |-> st, dictionary |-> dict, output |-> out, hangs |-> FALSE,
     deep |-> TRUE]

RECURSIVE evaluateForth(_, _, _, _, _)
RECURSIVE evaluateTokens(_, _, _, _, _, _)

\* evaluate(tokens): a definition, a deletion, or the tokens one by one; an
\* exception is caught by this call, which reports it and returns
evaluateForth(toks, st, dict, out, depth) ==
    IF Len(toks) >= 3 /\ normalizeToken(At(toks, 0)) = tk_DEF
    THEN Evaluated(st,
                   defineForth(dict, At(toks, 1), BodyString(At(toks, 2)), FALSE),
                   Append(out, Line("", "Defined: ", At(toks, 1))))
    ELSE IF Len(toks) >= 2 /\ normalizeToken(At(toks, 0)) = tk_DEL
    THEN LET removed == removeForth(dict, At(toks, 1))
         IN  Evaluated(st, removed.dictionary,
                       Append(out,
                              IF removed.success
                              THEN Line("", "Removed: ", At(toks, 1))
                              ELSE Line("", "Word not found or cannot be removed: ",
                                        At(toks, 1))))
    ELSE evaluateTokens(toks, 0, st, dict, out, depth)

\* the for loop of evaluate from the token at index i
evaluateTokens(toks, i, st, dict, out, depth) ==
    IF i >= Len(toks) THEN Evaluated(st, dict, out)
    ELSE
    LET token == At(toks, i)
        Caught(s, o, msg, word) ==
            Evaluated(s, dict, Append(o, Line("Error: ", msg, word)))
        Pushed(v) == evaluateTokens(toks, i + 1, Append(st, v), dict, out, depth)
    IN  IF IsNumberLiteral(token)
        THEN Pushed(Fraction(parseInt(token).val, 1))
        ELSE IF includes(token, "/")
        THEN LET parts == split(token, "/")
                 num   == parseInt(parts[1])
                 denom == parseInt(parts[2])
             IN  IF ~denom.isNaN /\ denom.val = 0
                 THEN Caught(st, out, "Division by zero", <<>>)
                 ELSE IF num.isNaN \/ denom.isNaN
                 THEN EvaluateHangs(st, dict, out)
                 ELSE Pushed(Fraction(num.val, denom.val))
        ELSE IF startsAndEndsWithQuote(token)
        THEN Pushed(HolonString(IF Len(token) <= 2 THEN <<>>
                                ELSE SubSeq(token, 2, Len(token) - 1)))
        ELSE LET word == lookupForth(dict, normalizeToken(token))
             IN  IF word = Null THEN Caught(st, out, "Unknown token: ", token)
                 ELSE IF word.kind = "string"
                 THEN IF depth >= MaxDepth THEN EvaluateDeep(st, dict, out)
                      ELSE LET r == evaluateForth(tokenizeForth(word.value), st,
                                                  dict, out, depth + 1)
                           IN  IF r.hangs \/ r.deep THEN r
                               ELSE evaluateTokens(toks, i + 1, r.stack,
                                                   r.dictionary, r.output, depth)
                 ELSE LET r == forthWord(word.name, st, out)
                      IN  IF r.thrown # "none"
                          THEN Caught(r.stack, r.output, r.thrown, <<>>)
                          ELSE evaluateTokens(toks, i + 1, r.stack, dict,
                                              r.output, depth)

\* the welcome message that init() leaves in state.output
ForthWelcome == Line("", "Holon FORTH-Based Stack Language", <<>>)

\* executeCode of part_002: the welcome message is cleared, then
\* evaluate(tokenize(code))
executeForth(code, st, dict, out) ==
    LET isFirstExecution == includes(out, ForthWelcome)
    IN  evaluateForth(tokenizeForth(code), st, dict,
                      IF isFirstExecution THEN <<>> ELSE out, 0)

(***************************************************************************)
(* The state of src/unnamed/part_003.                                      *)
(*                                                                         *)
(*   stack, register, output, customWords   the fields of `state`          *)
(*   pc          where executeCode stands: "idle" (no handler runs),       *)
(*               "parse", "interpret", or "hung" (a loop that never ends)  *)
(*   tokens, parse_i, program   parse's tokens, its index i and the        *)
(*               program it has built so far                               *)
(*   frames      the calls of interpret in progress, innermost last: the   *)
(*               program, the index i of the next token, and the caller    *)
(*               (via) that decides what happens when the call returns     *)
(*   caught      the message of the exception that the last token executed *)
(*               by this call of executeCode raised and interpret's catch  *)
(*               received; "none" if that token completed                  *)
(***************************************************************************)
VARIABLES stack, register, output, customWords, pc, tokens, parse_i, program,
          frames, caught

\* The state of src/script.js: state.dictionary and state.output.
VARIABLES dictionary, scriptOutput

interpreterVars == <<stack, register, output, customWords, pc, tokens, parse_i,
                     program, frames, caught>>

scriptVars == <<dictionary, scriptOutput>>

\* The state of src/unnamed/part_002: state.stack, state.dictionary and
\* state.output; forthHung: a handler entered a loop that never ends.
VARIABLES forthStack, forthDictionary, forthOutput, forthHung

forthVars == <<forthStack, forthDictionary, forthOutput, forthHung>>

(***************************************************************************)
(* src/js/gui.js: the GUI object, and the host interface of the            *)
(* interpreter it drives (window.ajisaiInterpreter).  The interpreter's    *)
(* code is not among the sources: a call returns any of the results that   *)
(* its interface allows.                                                   *)
(***************************************************************************)
\* the largest position and total that step() reports
MaxSteps == 2

\* a call of the interpreter and what it did: thrown (an exception), or a
\* result with its status, output, position, total and hasMore
Call(op, thrown, status, out, position, total, hasMore) ==
    [op |-> op, thrown |-> thrown, status |-> status, output |-> out,
     position |-> position, total |-> total, hasMore |-> hasMore]

ErrorMessage == "Stack underflow"
Outputs == {"", "out"}

\* init_step(source) -> "OK" or error-message
InitStepResults ==
    {Call("init_step", thrown, status, "", 0, 0, FALSE) :
        thrown \in BOOLEAN, status \in {"OK", ErrorMessage}}
      \ {Call("init_step", TRUE, "OK", "", 0, 0, FALSE)}

\* step() -> { output, position, total, has_more }; may also set status to
\* an error on failure
StepResults ==
    {Call("step", FALSE, status, out, position, total, hasMore) :
        status \in {"OK", ErrorMessage}, out \in Outputs,
        position \in 1..MaxSteps, total \in 1..MaxSteps, hasMore \in BOOLEAN}
      \cup {Call("step", TRUE, ErrorMessage, "", 0, 0, FALSE)}

\* execute(source) -> { status: "OK" | error-message, output }
ExecuteResults ==
    {Call("execute", FALSE, status, out, 0, 0, FALSE) :
        status \in {"OK", ErrorMessage}, out \in Outputs}
      \cup {Call("execute", TRUE, ErrorMessage, "", 0, 0, FALSE)}

\* the text of the output display: `${prefix}${text}`, followed by
\* `\nStep ${position}/${total}: Press Ctrl+Enter to continue...` when
\* position is not 0
Display(prefix, text, position, total) ==
    [prefix |-> prefix, text |-> text, position |-> position, total |-> total]

\* the GUI object after init(): mode, stepMode, and the values of
\* elements.codeInput and elements.outputDisplay
GUI == [mode |-> "input", stepMode |-> FALSE, codeInput |-> <<>>,
        outputDisplay |-> Display("", "", 0, 0)]

\* what a handler leaves: the GUI object and the calls it made
Handled(g, cs) == [gui |-> g, calls |-> cs]

\* continueStepExecution that stays in step mode after the last step
continueStepExecution_staysInStepMode(g, r, isMobile) ==
    IF ~g.stepMode THEN Handled(g, <<>>)
    ELSE IF r.thrown
    THEN Handled([g EXCEPT !.stepMode = FALSE,
                           !.outputDisplay = Display("Error: ", r.status, 0, 0)],
                 <<r>>)
    ELSE LET shown ==
                 IF r.hasMore THEN Display("", r.output, r.position, r.total)
                 ELSE IF r.output # "" THEN Display("", r.output, 0, 0)
                 ELSE Display("", "OK (Step execution completed)", 0, 0)
         IN  IF r.hasMore
             THEN Handled([g EXCEPT !.outputDisplay = shown], <<r>>)
             ELSE Handled([g EXCEPT !.outputDisplay = shown,
                                    !.codeInput = <<>>,
                                    !.mode = IF isMobile THEN "execution" ELSE @],
                          <<r>>)

\* GUI.continueStepExecution(), r being what step() does
continueStepExecution(g, r, isMobile) ==
    IF ~g.stepMode THEN Handled(g, <<>>)
    ELSE IF r.thrown
    THEN Handled([g EXCEPT !.stepMode = FALSE,
                           !.outputDisplay = Display("Error: ", r.status, 0, 0)],
                 <<r>>)
    ELSE LET shown ==
                 IF r.hasMore THEN Display("", r.output, r.position, r.total)
                 ELSE IF r.output # "" THEN Display("", r.output, 0, 0)
                 ELSE Display("", "OK (Step execution completed)", 0, 0)
         IN  IF r.hasMore
             THEN Handled([g EXCEPT !.outputDisplay = shown], <<r>>)
             ELSE Handled([g EXCEPT !.outputDisplay = shown,
                                    !.stepMode = FALSE,
                                    !.codeInput = <<>>,
                                    !.mode = IF isMobile THEN "execution" ELSE @],
                          <<r>>)

\* GUI.startStepExecution(), r1 being what init_step does and r2 what the
\* first step() does
startStepExecution(g, loaded, r1, r2, isMobile) ==
    LET code == Trim(g.codeInput)
    IN  IF code = <<>> THEN Handled(g, <<>>)
        ELSE IF ~loaded
        THEN Handled([g EXCEPT !.outputDisplay =
                                   Display("", "Error: WASM not loaded", 0, 0)],
                     <<>>)
        ELSE IF r1.thrown
        THEN Handled([g EXCEPT !.outputDisplay =
                                   Display("Error: ", r1.status, 0, 0)], <<r1>>)
        ELSE IF r1.status = "OK"
        THEN LET started ==
                     [g EXCEPT !.stepMode = TRUE,
                               !.outputDisplay =
                                   Display("", "Step mode: Press Ctrl+Enter to continue...", 0, 0)]
                 first == continueStepExecution(started, r2, isMobile)
             IN  Handled(first.gui, <<r1>> \o first.calls)
        ELSE Handled([g EXCEPT !.outputDisplay = Display("", r1.status, 0, 0)],
                     <<r1>>)

\* GUI.executeCode(), r being what execute does
executeCode(g, loaded, r, isMobile) ==
    LET code == Trim(g.codeInput)
        ended == [g EXCEPT !.stepMode = FALSE]
    IN  IF code = <<>> THEN Handled(g, <<>>)
        ELSE IF ~loaded
        THEN Handled([ended EXCEPT !.outputDisplay =
                                       Display("", "Error: WASM not loaded", 0, 0)],
                     <<>>)
        ELSE IF r.thrown
        THEN Handled([ended EXCEPT !.outputDisplay =
                                       Display("Error: ", r.status, 0, 0)], <<r>>)
        ELSE IF r.status = "OK"
        THEN Handled([ended EXCEPT !.outputDisplay =
                                       Display("", IF r.output # "" THEN r.output
                                                   ELSE "OK", 0, 0),
                                   !.codeInput = <<>>,
                                   !.mode = IF isMobile THEN "execution" ELSE @],
                     <<r>>)
        ELSE Handled([ended EXCEPT !.outputDisplay = Display("", r.status, 0, 0)],
                     <<r>>)

RECURSIVE continuationAfter(_, _)
\* whether the interpreter holds a step continuation after the calls cs:
\* init_step that returns "OK" prepares one; a step that reports no more
\* tokens consumes it; an exception of step and an execute end it
continuationAfter(cs, held) ==
    IF cs = <<>> THEN held
    ELSE LET c == Head(cs)
         IN  continuationAfter(Tail(cs),
                 CASE c.op = "init_step" -> ~c.thrown /\ c.status = "OK"
                   [] c.op = "step" -> ~c.thrown /\ c.hasMore
                   [] c.op = "execute" -> FALSE)

\* The state of src/js/gui.js: gui is the GUI object; wasm: window.HolonWasm
\* is set; continuation: the interpreter holds a step continuation; calls:
\* the calls of the interpreter that the last handler made.
VARIABLES gui, wasm, continuation, calls

guiVars == <<gui, wasm, continuation, calls>>

\* ---------------------------------------------------------------------
\* src/unnamed/part_000: the loader of the WASM module
\* ---------------------------------------------------------------------

\* the number of calls of initWasm that can be in flight together
MaxCalls == 3

CallIds == 1..MaxCalls

\* the module object that import() resolves to; import() caches it, so every
\* call gets the same object
Module == "module"

\* what the imported module exports: a default function, an init function,
\* or neither; it is "unknown" until import() first resolves
ModuleShapes == {"default", "init", "plain"}

\* a call of initWasm: where it is suspended and what it returned
LoaderCall(at, result) == [at |-> at, result |-> result]

\* let wasmModule = null;  one call per id, none started;  the module's
\* own count of completed initialisations
VARIABLES wasmModule, loaderCalls, moduleShape, initialised

loaderVars == <<wasmModule, loaderCalls, moduleShape, initialised>>

\* ---------------------------------------------------------------------
\* src/unnamed/part_004: the dot keypad
\* ---------------------------------------------------------------------

multiStrokeTimeout == 700
longPressDuration == 500
\* the slack of the recognition timer's test: multiStrokeTimeout - 50
recognitionSlack == 50

\* the clock advances in steps of the slack, so that every delay of the
\* keypad is a whole number of steps
\* the number of clock steps of a behaviour
MaxTicks == 15

\* Date.now() of the first state: later than any timeout after time 0
StartTime == multiStrokeTimeout + recognitionSlack

\* the pending recognition timers
MaxTimers == 2

\* the number of insertions into the textarea
MaxInserted == 2

\* const drawState = {...}
DrawState(isActive, detectedDots, totalValue, lastStrokeTime, longPressTimer, isLongPress, currentTouchId) ==
    [isActive |-> isActive, detectedDots |-> detectedDots,
     totalValue |-> totalValue, lastStrokeTime |-> lastStrokeTime,
     longPressTimer |-> longPressTimer, isLongPress |-> isLongPress,
     currentTouchId |-> currentTouchId]

\* drawState, the long-press timer of the browser, the recognition timers of
\* the browser in the order of their creation, Date.now(), the pointer, and
\* the insertions into the textarea
VARIABLES drawState, longPress, recognitionTimers, now, pointer, inserted

keypadVars == <<drawState, longPress, recognitionTimers, now, pointer, inserted>>

\* no timer
NoTimer == [live |-> FALSE, due |-> 0, text |-> ""]

\* the one pointer of the device (e.pointerId)
PointerId == "mouse"

\* the pointer: whether it is down, the element it went down on, whether
\* it has moved since, and the number of insertions made before it went down
Pointer(down, on, moved, mark) == [down |-> down, on |-> on, moved |-> moved, mark |-> mark]

\* the zero button of the special row, which is outside #dot-grid: the
\* elements are numbered, the dots of the 5x5 grid by their index and the
\* zero button after them
zeroButton == 5 * 5

\* no element: a place without a dot
noElement == zeroButton + 1

\* no pointer is down
PointerUpState == Pointer(FALSE, noElement, FALSE, 0)

\* the dots of the 5x5 grid that the pointer visits, by index: the five dots
\* of the letter V, three with a digit and two with a word
GridDots == {0, 4, 11, 13, 22}

\* the elements with a pointerdown listener
Elements == GridDots \cup {zeroButton}

\* const dotValues = [1, 2, 4, ...]: the value of the dot of an index
dotValues(index) == 2 ^ index

letterPatterns ==
    {<<17836036, "A">>, <<28611899, "B">>, <<32539711, "C">>, <<1224985, "D">>,
     <<32567296, "E">>, <<1113151, "F">>, <<33092671, "G">>, <<18415153, "H">>,
     <<32641183, "I">>, <<7475359, "J">>, <<17990833, "K">>, <<32539681, "L">>,
     <<18405233, "M">>, <<18667121, "N">>, <<33080895, "O">>, <<1113663, "P">>,
     <<33347135, "Q">>, <<18153023, "R">>, <<33061951, "S">>, <<4329631, "T">>,
     <<33080881, "U">>, <<4204561, "V">>, <<18732593, "W">>, <<18157905, "X">>,
     <<4329809, "Y">>, <<32575775, "Z">>}

numericPositions ==
    {<<0, "1">>, <<2, "2">>, <<4, "3">>, <<10, "4">>, <<12, "5">>, <<14, "6">>,
     <<20, "7">>, <<22, "8">>, <<24, "9">>}

dotWordMapping == {<<128, "+">>, <<131072, "-">>, <<2048, "*">>, <<8192, "/">>}

\* table[key], or "" when the table has no such key
Lookup(table, key) ==
    IF \E e \in table : e[1] = key THEN (CHOOSE e \in table : e[1] = key)[2] ELSE ""

\* element.dataset.digit || element.dataset.word, "" when the element has
\* neither
digitOrWord(element) ==
    IF element = zeroButton THEN "0"
    ELSE IF Lookup(numericPositions, element) # "" THEN Lookup(numericPositions, element)
    ELSE Lookup(dotWordMapping, dotValues(element))

\* recognizeLetter(totalValue), "" for null
recognizeLetter(totalValue) == Lookup(letterPatterns, totalValue)

\* the gesture state together with the browser's long-press timer, which
\* the functions below set and clear through drawState.longPressTimer
Keypad(ds, lp) == [ds |-> ds, lp |-> lp]

\* resetDrawState(keepActive); clearTimeout stops the long-press timer
resetDrawState(k, keepActive) ==
    Keypad([k.ds EXCEPT !.isActive = keepActive, !.detectedDots = {},
                        !.totalValue = 0, !.isLongPress = FALSE,
                        !.lastStrokeTime = IF keepActive THEN @ ELSE 0,
                        !.longPressTimer = FALSE],
           NoTimer)

\* addDetectedDot(dotElement)
addDetectedDot(k, dot) ==
    IF dot \in k.ds.detectedDots THEN k
    ELSE Keypad([k.ds EXCEPT !.detectedDots = @ \cup {dot},
                             !.totalValue = @ + dotValues(dot)],
                k.lp)

\* startDrawing(dotElement, startX, startY) at Date.now() = t
startDrawing(k, dot, t) ==
    LET fresh == IF ~k.ds.isActive \/ t - k.ds.lastStrokeTime > multiStrokeTimeout
                   THEN resetDrawState(k, TRUE) ELSE k
    IN  addDetectedDot(Keypad([fresh.ds EXCEPT !.isActive = TRUE], fresh.lp), dot)

vars == <<interpreterVars, scriptVars, forthVars, guiVars, loaderVars, keypadVars>>

Init ==
    /\ stack = <<>>
    /\ register = Null
    /\ output = <<>>
    /\ customWords = <<>>
    /\ pc = "idle"
    /\ tokens = <<>>
    /\ parse_i = 0
    /\ program = <<>>
    /\ frames = <<>>
    /\ caught = "none"
    /\ dictionary = initializeBuiltins
    /\ scriptOutput = <<Welcome>>
    /\ forthStack = <<>>
    /\ forthDictionary = initializeBuiltinsForth
    /\ forthOutput = <<ForthWelcome>>
    /\ forthHung = FALSE
    /\ gui = GUI
    /\ wasm = FALSE
    /\ continuation = FALSE
    /\ calls = <<>>
    /\ wasmModule = "null"
    /\ loaderCalls = [c \in CallIds |-> LoaderCall("idle", "none")]
    /\ moduleShape = "unknown"
    /\ initialised = 0
    /\ drawState = DrawState(FALSE, {}, 0, 0, FALSE, FALSE, "null")
    /\ longPress = NoTimer
    /\ recognitionTimers = <<>>
    /\ now = StartTime
    /\ pointer = PointerUpState
    /\ inserted = <<>>

InRange(v) ==
    IsFraction(v) => (Abs(v.numerator) <= MaxNum /\ v.denominator <= MaxNum)

\* the bounds of the model on a stack and a register
Bounded(st, reg) ==
    /\ Len(st) <= MaxStack
    /\ \A k \in 1..Len(st) : InRange(st[k])
    /\ InRange(reg)

\* The keydown handler for Shift+Enter up to the call of parse:
\* state.logs = []; executeCode(code) { tokens = tokenize(code); ... }
ExecuteCode(code) ==
    /\ pc = "idle"
    /\ Len(output) < MaxOutput
    /\ pc' = "parse"
    /\ tokens' = tokenize(code)
    /\ parse_i' = 0
    /\ program' = <<>>
    /\ caught' = "none"
    /\ UNCHANGED <<stack, register, output, customWords, frames>>
    /\ UNCHANGED <<scriptVars, forthVars, guiVars, loaderVars, keypadVars>>

\* interpret(program): the test made on entry.  A program that includes
\* LOOP is skipped as a whole while the register is empty.
enter(prog, reg, via) ==
    [program |-> prog,
     i       |-> IF includes(prog, tk_LOOP) /\ reg = Null THEN Len(prog) ELSE 0,
     via     |-> via]

\* One turn of parse's loop; at the end of the tokens parse returns and
\* executeCode calls interpret(program); an exception of parse is caught by
\* executeCode, which reports it and the debug logs.
ParseStep ==
    /\ pc = "parse"
    /\ IF parse_i >= Len(tokens)
       THEN /\ pc' = "interpret"
            /\ frames' = <<enter(program, register, "executeCode")>>
            /\ UNCHANGED <<parse_i, program, customWords, output, tokens>>
       ELSE LET r == parseTurn(tokens, parse_i, program, customWords, output)
            IN  IF r.thrown # "none"
                THEN /\ pc' = "idle"
                     /\ output' = r.output \o
                                  <<Line("Error: ", r.thrown, <<>>),
                                    Line("", "===== Debug Logs =====", <<>>)>>
                     /\ customWords' = r.customWords
                     /\ tokens' = <<>>
                     /\ parse_i' = 0
                     /\ program' = <<>>
                     /\ UNCHANGED frames
                ELSE /\ parse_i' = r.i
                     /\ program' = r.program
                     /\ customWords' = r.customWords
                     /\ output' = r.output
                     /\ UNCHANGED <<pc, tokens, frames>>
    /\ UNCHANGED <<stack, register, caught>>
    /\ UNCHANGED <<scriptVars, forthVars, guiVars, loaderVars, keypadVars>>

\* the innermost call of interpret
Current == frames[Len(frames)]

\* frames with the innermost call's index set to n
SetIndex(fs, n) == [fs EXCEPT ![Len(fs)].i = n]

\* the condition of LOOP's while loop
loopGoesOn(reg) ==
    reg # Null /\ ~(IsFraction(reg) /\ reg.numerator = 0)

\* after LOOP's while loop: a register holding 0 is cleared
afterLoop(reg) ==
    IF IsFraction(reg) /\ reg.numerator = 0 THEN Null ELSE reg

\* Object.entries(state.customWords).find(([name, word]) =>
\*     word.body.includes("LOOP"))
loopWords(cw) == SelectSeq(cw, LAMBDA e : includes(e.body, tk_LOOP))

\* What the token at the innermost call's index does: the stack and the
\* register it leaves, the exception it raises ("none" if none), whether it
\* hangs, and the body of the call of interpret it makes (call = "none" if it
\* makes none).
Effect(st, reg, thrown, hangs, call, body) ==
    [stack |-> st, register |-> reg, thrown |-> thrown, hangs |-> hangs,
     call |-> call, body |-> body]

FromOutcome(o) == Effect(o.stack, o.register, o.thrown, o.hangs, "none", <<>>)

\* builtinWords["LOOP"].execute()
word_LOOP(st, reg, cw) ==
    IF reg = Null THEN Effect(st, reg, "none", FALSE, "none", <<>>)
    ELSE IF loopWords(cw) = <<>>
    THEN Effect(st, reg, "LOOP: no current custom word", FALSE, "none", <<>>)
    ELSE IF loopGoesOn(reg)
    THEN Effect(st, reg, "none", FALSE, "LOOP", loopWords(cw)[1].body)
    ELSE Effect(st, afterLoop(reg), "none", FALSE, "none", <<>>)

\* the body of interpret's while loop for one token
tokenEffect(token, st, reg, cw) ==
    LET parsedValue == parseToken(token)
        normalizedToken == normalizeToken(token)
    IN  IF parsedValue.thrown # "none"
        THEN Effect(st, reg, parsedValue.thrown, FALSE, "none", <<>>)
        ELSE IF parsedValue.value # Null
        THEN Effect(Append(st, parsedValue.value), reg, "none", FALSE, "none", <<>>)
        ELSE IF normalizedToken \in BuiltinNames
        THEN IF normalizedToken = tk_LOOP
             THEN word_LOOP(st, reg, cw)
             ELSE FromOutcome(execute(normalizedToken, st, reg))
        ELSE IF HasWord(cw, normalizedToken)
        THEN LET customBody == WordOf(cw, normalizedToken).body
             IN  IF includes(customBody, tk_LOOP)
                 THEN IF reg # Null
                      THEN Effect(st, reg, "none", FALSE, "customLoop", customBody)
                      ELSE Effect(st, reg, "none", FALSE, "none", <<>>)
                 ELSE Effect(st, reg, "none", FALSE, "custom", customBody)
        ELSE Effect(st, reg, "Unknown word", FALSE, "none", <<>>)

\* interpret executes the token at its index.  An exception is caught by the
\* catch of the same call, which logs it and lets the call return.
InterpretStep ==
    /\ pc = "interpret"
    /\ Current.i < Len(Current.program)
    /\ LET e == tokenEffect(At(Current.program, Current.i), stack, register,
                            customWords)
       IN  /\ Bounded(e.stack, e.register)
           /\ stack' = e.stack
           /\ register' = e.register
           /\ caught' = e.thrown
           /\ IF e.hangs
              THEN /\ pc' = "hung"
                   /\ UNCHANGED frames
              ELSE /\ UNCHANGED pc
                   /\ IF e.thrown # "none"
                      THEN frames' = SetIndex(frames, Len(Current.program))
                      ELSE IF e.call # "none"
                      THEN /\ Len(frames) < MaxDepth
                           /\ frames' = Append(frames, enter(e.body, e.register, e.call))
                      ELSE frames' = SetIndex(frames, Current.i + 1)
    /\ UNCHANGED <<output, customWords, tokens, parse_i, program>>
    /\ UNCHANGED <<scriptVars, forthVars, guiVars, loaderVars, keypadVars>>

\* A call of interpret returns.  To executeCode: updateUI and the handler
\* ends.  To a custom word's invocation: the caller goes on with its next
\* token, or, for a body that includes LOOP, calls the body again while the
\* register is not empty.  To LOOP: the body is called again while the
\* register holds neither null nor 0.
Return ==
    /\ pc = "interpret"
    /\ Current.i >= Len(Current.program)
    /\ LET callers == SubSeq(frames, 1, Len(frames) - 1)
           resume  == SetIndex(callers, callers[Len(callers)].i + 1)
       IN  CASE Current.via = "executeCode" ->
                  /\ pc' = "idle"
                  /\ frames' = <<>>
                  /\ tokens' = <<>>
                  /\ parse_i' = 0
                  /\ program' = <<>>
                  /\ caught' = "none"
                  /\ UNCHANGED register
              [] Current.via = "custom" ->
                  /\ frames' = resume
                  /\ UNCHANGED <<pc, tokens, parse_i, program, register, caught>>
              [] Current.via = "customLoop" ->
                  /\ frames' = IF register # Null
                               THEN Append(callers, enter(Current.program, register, "customLoop"))
                               ELSE resume
                  /\ UNCHANGED <<pc, tokens, parse_i, program, register, caught>>
              [] Current.via = "LOOP" ->
                  /\ frames' = IF loopGoesOn(register)
                               THEN Append(callers, enter(Current.program, register, "LOOP"))
                               ELSE resume
                  /\ register' = IF loopGoesOn(register) THEN register
                                 ELSE afterLoop(register)
                  /\ UNCHANGED <<pc, tokens, parse_i, program, caught>>
    /\ UNCHANGED <<stack, output, customWords>>
    /\ UNCHANGED <<scriptVars, forthVars, guiVars, loaderVars, keypadVars>>

\* Ctrl+Enter: state.logs = []; outputStackTop().  The top of the stack is
\* popped and written to the output, a string without its quotes; an empty
\* stack is reported.  (Shift+Ctrl+Enter is executeCode(code) followed by
\* outputStackTop(): ExecuteCode up to its Return, then this action.)
OutputStackTop ==
    /\ pc = "idle"
    /\ Len(output) < MaxOutput
    /\ IF Len(stack) < 1
       THEN /\ output' = Append(output, Line("Error: ", "Stack underflow", <<>>))
            /\ UNCHANGED stack
       ELSE LET top == Top(stack)
            IN  /\ stack' = Pop(stack, 1)
                /\ output' = Append(output,
                                    Line("", "", IF top.kind = "HolonString"
                                                 THEN top.value ELSE toString(top)))
    /\ UNCHANGED <<register, customWords, pc, tokens, parse_i, program, frames,
                   caught>>
    /\ UNCHANGED <<scriptVars, forthVars, guiVars, loaderVars, keypadVars>>

\* the interpreter fed with the sources of a set
NextOver(Sources) ==
    \/ \E code \in Sources : ExecuteCode(code)
    \/ ParseStep
    \/ InterpretStep
    \/ Return
    \/ OutputStackTop

(***************************************************************************)
(* Sources.  A source is the text typed into the input: tokens separated   *)
(* by one space.                                                           *)
(***************************************************************************)
\* the longest source of single tokens, in tokens
MaxSource == 2

SeqsUpTo(S, n) == UNION {[1..k -> S] : k \in 0..n}

Text(toks) == join(toks, <<" ">>)

lit_0 == <<"0">>
lit_1 == <<"1">>

\* literals and the words of the register and of division
RegisterTokens ==
    {lit_0, lit_1, tk_toR, tk_fromR, tk_Rat, tk_div, tk_Rdiv, tk_DROP}

RegisterSources == {Text(ts) : ts \in SeqsUpTo(RegisterTokens, MaxSource)}

NextRegister == NextOver(RegisterSources)

SpecRegister == Init /\ [][NextRegister]_vars

\* the longest body of a definition, in tokens
MaxBody == 2

nm_A == <<"A">>
nm_B == <<"B">>
nm_W == <<"W">>

\* NAME { body } DEF
DefineText(name, body) == Text(<<name, tk_open>> \o body \o <<tk_close, tk_DEF>>)
\* NAME { } DEL
DeleteText(name) == Text(<<name, tk_open, tk_close, tk_DEL>>)
\* NAME DEL
ShortDeleteText(name) == Text(<<name, tk_DEL>>)

\* the sources that define and delete the words of `names`, with bodies of
\* at most maxBody tokens of bodyTokens
DefinitionSources(names, bodyTokens, maxBody) ==
    UNION {{DefineText(name, body) : body \in SeqsUpTo(bodyTokens, maxBody)}
           \cup {DeleteText(name), ShortDeleteText(name)} : name \in names}

\* two words that may mention each other and themselves
DictionarySources == DefinitionSources({nm_A, nm_B}, {nm_A, nm_B}, MaxBody)

NextDictionary == NextOver(DictionarySources)

SpecDictionary == Init /\ [][NextDictionary]_vars

\* the longest body of a word that is invoked, in tokens
MaxCallBody == 1

nm_V == <<"V">>

\* two words whose body pushes, drops or calls W, and the programs that
\* invoke them
CallSources ==
    DefinitionSources({nm_W, nm_V}, {lit_1, tk_DROP, nm_W}, MaxCallBody)
      \cup {Text(ts) : ts \in SeqsUpTo({nm_W, nm_V, lit_1}, MaxSource)}

NextCalls == NextOver(CallSources)

SpecCalls == Init /\ [][NextCalls]_vars

\* definitions under the name of a built-in word, and programs that use it
ShadowSources ==
    DefinitionSources({tk_DUP}, {lit_1, tk_DROP}, MaxBody)
      \cup {Text(ts) : ts \in SeqsUpTo({tk_DUP, lit_1}, MaxSource)}

NextShadow == NextOver(ShadowSources)

SpecShadow == Init /\ [][NextShadow]_vars

(***************************************************************************)
(* The combinator-based evaluator (src/script.js) as a state machine: one  *)
(* action, the Shift+Enter handler, which runs executeCode to its end.     *)
(***************************************************************************)
\* no source is accepted once state.output holds MaxScriptOutput pieces
MaxScriptOutput == 3

\* Shift+Enter: state.logs = []; executeCode(code)
ExecuteScript(code) ==
    /\ Len(scriptOutput) < MaxScriptOutput
    /\ ~Applies(code, dictionary)
    /\ LET r == executeScript(code, dictionary, scriptOutput)
       IN  /\ ~r.hangs
           /\ dictionary' = r.dictionary
           /\ scriptOutput' = r.output
    /\ UNCHANGED <<interpreterVars, forthVars, guiVars, loaderVars, keypadVars>>

\* the bounds of the model on part_002's stack and output
MaxForthStack == 3
MaxForthNum == 8
MaxForthOutput == 2

BoundedForth(st) ==
    /\ Len(st) <= MaxForthStack
    /\ \A k \in 1..Len(st) :
          IsFraction(st[k]) =>
              (Abs(st[k].numerator) <= MaxForthNum
                 /\ st[k].denominator <= MaxForthNum)

\* part_002's keydown handler for Shift+Enter:
\* state.logs = []; executeCode(code)
ExecuteForth(code) ==
    /\ ~forthHung
    /\ LET r == executeForth(code, forthStack, forthDictionary, forthOutput)
       IN  /\ ~r.deep
           /\ IF r.hangs
              THEN /\ forthHung' = TRUE
                   /\ UNCHANGED <<forthStack, forthDictionary, forthOutput>>
              ELSE /\ BoundedForth(r.stack)
                   /\ Len(r.output) <= MaxForthOutput
                   /\ forthStack' = r.stack
                   /\ forthDictionary' = r.dictionary
                   /\ forthOutput' = r.output
                   /\ UNCHANGED forthHung
    /\ UNCHANGED <<interpreterVars, scriptVars, guiVars, loaderVars, keypadVars>>

\* part_002 fed with the sources of a set
NextForthOver(Sources) == \E code \in Sources : ExecuteForth(code)

nm_X == <<"X">>
nm_Q == <<"Q">>
nm_del == <<"d","e","l">>

\* DEF NAME ( OPERATOR )
DefineScriptText(name, operator) ==
    Text(<<tk_DEF, name, tk_lparen, operator, tk_rparen>>)

\* definitions of X, deletions of X and of two built-ins, and sources of at
\* most one token
ScriptSources ==
    {DefineScriptText(nm_X, operator) : operator \in {sk_I, sk_K, nm_X, lit_1}}
      \cup {Text(<<del, name>>) : del \in {tk_DEL, nm_del}, name \in {sk_I, sk_K, nm_X}}
      \cup {Text(<<name>>) : name \in {sk_I, sk_K, nm_X, lit_1, tk_DEF, tk_DEL}}
      \cup {<<>>, Text(<<tk_DEF, nm_X, sk_I>>), Text(<<tk_DEF, nm_X, tk_lparen, nm_Q>>)}

NextScript == \E code \in ScriptSources : ExecuteScript(code)

SpecScript == Init /\ [][NextScript]_vars

(***************************************************************************)
(* Properties of the built-in words (src/unnamed/part_003).                *)
(***************************************************************************)
\* interpret executes a token that names the built-in word `name`
Executes(name) ==
    /\ InterpretStep
    /\ normalizeToken(At(Current.program, Current.i)) = name

\* interpret executes a token that names some built-in word
ExecutesBuiltin ==
    /\ InterpretStep
    /\ normalizeToken(At(Current.program, Current.i)) \in BuiltinNames

\* the top-level program is prog, its first n tokens have been executed and
\* the last of them completed
Ran(prog, n) ==
    /\ pc = "interpret"
    /\ Len(frames) = 1
    /\ Current.program = prog
    /\ Current.i = n
    /\ caught = "none"

\* C1: whenever a built-in word raises an error, the stack, the register
\* and the custom words are what they were just before the word was invoked.
C1_ErrorLeavesStateUnchanged ==
    [][(ExecutesBuiltin /\ caught' # "none") =>
          (stack' = stack /\ register' = register /\ customWords' = customWords)]_vars

Mentioned(cw, name) ==
    \E k \in 1..Len(cw) : \E m \in 1..Len(cw[k].body) :
        normalizeToken(cw[k].body[m]) = name

\* the custom words whose body mentions the name
Referrers(cw, name) ==
    {cw[k].name : k \in {j \in 1..Len(cw) :
        \E m \in 1..Len(cw[j].body) : normalizeToken(cw[j].body[m]) = name}}

\* parse stands at the { of NAME { ... } op
AtBlock(op) ==
    /\ pc = "parse"
    /\ 0 < parse_i /\ parse_i < Len(tokens)
    /\ normalizeToken(At(tokens, parse_i)) = tk_open
    /\ LET closed == closeBlock(tokens, parse_i + 1, 1)
           found  == findDef(tokens, closed.j, <<>>)
       IN  /\ closed.depth = 0
           /\ found.defIndex # -1
           /\ normalizeToken(At(tokens, found.defIndex)) = op

\* parse stands at the DEL of NAME DEL, NAME a custom word
AtShortDel ==
    /\ pc = "parse"
    /\ 0 < parse_i /\ parse_i < Len(tokens)
    /\ normalizeToken(At(tokens, parse_i)) = tk_DEL
    /\ HasWord(customWords, normalizeToken(At(tokens, parse_i - 1)))

\* the name that the DEF or DEL at which parse stands is about
Target == normalizeToken(At(tokens, parse_i - 1))

\* parse stands at a DEL of a custom word, or at a DEF that would overwrite
\* one, and the body of some custom word mentions that word
AtProtected ==
    /\ AtBlock(tk_DEF) \/ AtBlock(tk_DEL) \/ AtShortDel
    /\ HasWord(customWords, Target)
    /\ Mentioned(customWords, Target)

\* a line has been appended to the output, and it reports an error
ErrorAppended ==
    /\ Len(output') = Len(output) + 1
    /\ SubSeq(output', 1, Len(output)) = output
    /\ output'[Len(output')].prefix = "Error: "

\* C2: an error raised by a token aborts the whole execution: once a token
\* has raised an error, executeCode executes no further token, neither of
\* the body in which it was raised nor of the programs that called it.
C2_ErrorAbortsExecution ==
    [][(pc = "interpret" /\ caught \notin {"none", SkipWord}) => ~InterpretStep]_vars

\* C3: a DEL of a custom word, or a DEF that would overwrite one, while the
\* body of a custom word mentions it, leaves customWords unchanged and
\* appends an error message to the output, in the block form and in the
\* short form.
C3_ProtectedWordKept ==
    [][(AtProtected /\ ParseStep) =>
          (customWords' = customWords /\ ErrorAppended)]_vars

\* the source A DEL has been parsed, A is still defined and mentioned by a
\* body, and the refusal is the last line of the output
C3_Witness ==
    /\ pc = "parse"
    /\ tokens = <<nm_A, tk_DEL>>
    /\ parse_i = 2
    /\ HasWord(customWords, nm_A)
    /\ HasWord(customWords, nm_B)
    /\ includes(WordOf(customWords, nm_B).body, nm_A)
    /\ output = <<Line("Error: ", "Cannot delete", nm_A)>>

\* this call of executeCode is for a source NAME DEL whose DEL was refused:
\* the tokens are parsed and NAME is still a custom word
RefusedShortDel ==
    /\ pc = "interpret"
    /\ Len(tokens) = 2
    /\ normalizeToken(tokens[2]) = tk_DEL
    /\ HasWord(customWords, normalizeToken(tokens[1]))

\* C4: a DEL that is refused leaves the stack and the register unchanged
\* (neither the named word nor any other token is executed for it): no step
\* of a call of executeCode whose DEL was refused changes them.
C4_RefusedDelExecutesNothing ==
    [][RefusedShortDel => (stack' = stack /\ register' = register)]_vars

\* C5: (a) a custom word that a body mentions and that is defined stays
\* defined for as long as that body is installed; (b) the number of referrers
\* computed for a word is the number of custom words whose body mentions it.
C5_DependenciesConsistent ==
    /\ [][\A u \in WordNames(customWords) : \A n \in WordNames(customWords) :
            ( /\ HasWord(customWords', u)
              /\ WordOf(customWords', u).body = WordOf(customWords, u).body
              /\ \E m \in 1..Len(WordOf(customWords, u).body) :
                    normalizeToken(WordOf(customWords, u).body[m]) = n )
            => HasWord(customWords', n)]_vars
    /\ [](\A n \in WordNames(customWords) :
            Len(referencedBy(customWords)[n]) =
                Cardinality(Referrers(customWords, n)))

\* A and B are defined, B mentions A twice and A mentions A, and a DEL has
\* been refused
C5_Witness ==
    /\ HasWord(customWords, nm_A)
    /\ HasWord(customWords, nm_B)
    /\ WordOf(customWords, nm_B).body = <<nm_A, nm_A>>
    /\ includes(WordOf(customWords, nm_A).body, nm_A)
    /\ Len(referencedBy(customWords)[nm_A]) = 2
    /\ Len(output) > 0
    /\ output[Len(output)].message = "Cannot delete"

\* C6: no user-defined entry exists under the name of a built-in word.
C6_NoCustomWordUnderBuiltinName ==
    \A k \in 1..Len(customWords) : customWords[k].name \notin BuiltinNames

(***************************************************************************)
(* Deletion of built-in words (src/script.js).                             *)
(***************************************************************************)
\* C7: a DEL whose name is a built-in word never removes it: after any
\* sequence of DEL operations every built-in word is still present in the
\* dictionary.
C7_BuiltinsStayDefined ==
    \A name \in Combinators :
        name \in DOMAIN dictionary /\ dictionary[name] = Combinator(name)

(***************************************************************************)
(* Arithmetic.  The stack and the register outlive a call of executeCode,  *)
(* so every sequence of literals and words is a sequence of sources of one *)
(* token.  Only Shift+Enter is pressed: outputStackTop does no arithmetic. *)
(***************************************************************************)
\* the interpreter when only executeCode is ever called
NextExecuteOver(Sources) ==
    \/ \E code \in Sources : ExecuteCode(code)
    \/ ParseStep
    \/ InterpretStep
    \/ Return

\* the literal 2/-4: not in lowest terms, and with a negative denominator
lit_2_m4 == <<"2", "/", "-", "4">>

ArithmeticWords ==
    {tk_plus, tk_minus, tk_times, tk_div, tk_Rplus, tk_Rminus, tk_Rtimes, tk_Rdiv}

\* the literal 1/0
lit_1_0 == <<"1", "/", "0">>

ArithmeticTokens ==
    {lit_0, lit_1, lit_2_m4, lit_1_0, tk_toR} \cup ArithmeticWords

ArithmeticSources == {Text(<<t>>) : t \in ArithmeticTokens}

NextArithmetic == NextExecuteOver(ArithmeticSources)

SpecArithmetic == Init /\ [][NextArithmetic]_vars

\* a Fraction in lowest terms with a positive denominator
Normalised(v) ==
    IsFraction(v) =>
        (v.denominator > 0 /\ gcd(Abs(v.numerator), v.denominator) = 1)

\* C11: every Fraction on the stack or in the register, after any sequence
\* of literals and of the words + - * / R+ R- R* R/, has a positive
\* denominator and is in lowest terms.
C11_FractionsInLowestTerms ==
    /\ \A k \in 1..Len(stack) : Normalised(stack[k])
    /\ Normalised(register)

\* `/` has just left -1/2 on the stack while the register holds a Fraction
\* that is no integer either
C11_Witness ==
    /\ Ran(<<tk_div>>, 1)
    /\ Top(stack) = Fraction(-1, 2)
    /\ IsFraction(register)
    /\ register.denominator = 2

\* the token interpret is about to execute
CurrentToken == At(Current.program, Current.i)

\* the token is `/` or `R/` and the divisor, the top of the stack, is a
\* Fraction whose numerator is 0, the dividend being a Fraction
DividesByZero ==
    /\ Len(stack) >= 1
    /\ IsFraction(Top(stack))
    /\ Top(stack).numerator = 0
    /\ \/ /\ normalizeToken(CurrentToken) = tk_div
          /\ Len(stack) >= 2
          /\ IsFraction(stack[Len(stack) - 1])
       \/ /\ normalizeToken(CurrentToken) = tk_Rdiv
          /\ IsFraction(register)

\* the token is a literal n/0
AtZeroDenominatorLiteral ==
    LET parts == split(CurrentToken, "/")
    IN  /\ Len(parts) = 2
        /\ ~parseInt(parts[1]).isNaN
        /\ ~parseInt(parts[2]).isNaN
        /\ parseInt(parts[2]).val = 0

NoZeroDenominator ==
    /\ \A k \in 1..Len(stack) : IsFraction(stack[k]) => stack[k].denominator # 0
    /\ IsFraction(register) => register.denominator # 0

\* C12: a division by a Fraction whose numerator is 0 and a literal whose
\* denominator is 0 both raise "Division by zero" and push nothing; no
\* Fraction with denominator 0 is ever on the stack or in the register.
C12_DivisionByZeroRaises ==
    [][/\ (InterpretStep /\ (DividesByZero \/ AtZeroDenominatorLiteral)) =>
            /\ caught' = "Division by zero"
            /\ Len(stack') <= Len(stack)
            /\ \A k \in 1..Len(stack') : stack'[k] = stack[k]
            /\ register' = register
       /\ NoZeroDenominator']_vars

\* the literal 1/0 has just raised while a 0 lies on the stack
C12_Witness ==
    /\ pc = "interpret"
    /\ Current.program = <<lit_1_0>>
    /\ caught = "Division by zero"
    /\ stack # <<>>
    /\ Top(stack) = Fraction(0, 1)

(***************************************************************************)
(* Arithmetic on strings.                                                  *)
(***************************************************************************)
\* the string literal "a"
lit_a == <<"\"", "a", "\"">>

StringSources ==
    {Text(<<t>>) : t \in {lit_1, lit_a, tk_plus, tk_minus, tk_times, tk_div}}

NextStrings == NextOver(StringSources)

SpecStrings == Init /\ [][NextStrings]_vars

\* the token is one of + - * / and one of its two operands is no Fraction
AtArithmeticOnNonNumber ==
    /\ normalizeToken(CurrentToken) \in {tk_plus, tk_minus, tk_times, tk_div}
    /\ Len(stack) >= 2
    /\ ~(IsFraction(Top(stack)) /\ IsFraction(stack[Len(stack) - 1]))

\* C13: an arithmetic word applied to an operand that is not a number ends
\* with a type error: it pushes no value and it does not run forever.
C13_NonNumberIsTypeError ==
    [][(InterpretStep /\ AtArithmeticOnNonNumber) =>
            /\ pc' # "hung"
            /\ caught' = NotAFunction
            /\ Len(stack') < Len(stack)]_vars

\* the errors that the execution of a program raises
RunTimeErrors == {Underflow, RegisterEmpty, "Unknown word", "Division by zero"}

\* executeCode's call of interpret returns after an error was raised
ReturnsAfterError ==
    /\ Return
    /\ Current.via = "executeCode"
    /\ caught \in RunTimeErrors

\* C14: an error raised while a program is executed is reported in
\* state.output, as a message with the prefix `Error: `, by the time the
\* handler ends.
C14_RunTimeErrorsReported ==
    [][ReturnsAfterError =>
            /\ Len(output') = Len(output) + 1
            /\ output'[Len(output')] = Line("Error: ", caught, <<>>)]_vars

(***************************************************************************)
(* The order of effects within one source.                                 *)
(***************************************************************************)
\* W { v } DEF W, followed by a redefinition or a deletion of W
RedefineAfterUse(v, w) ==
    Text(<<nm_W, tk_open, v, tk_close, tk_DEF, nm_W,
           nm_W, tk_open, w, tk_close, tk_DEF>>)
DeleteAfterUse(v) ==
    Text(<<nm_W, tk_open, v, tk_close, tk_DEF, nm_W,
           nm_W, tk_open, tk_close, tk_DEL>>)

OrderSources ==
    {RedefineAfterUse(v, w) : v \in {lit_0, lit_1}, w \in {lit_0, lit_1}}
      \cup {DeleteAfterUse(v) : v \in {lit_0, lit_1}}
      \cup {Text(<<nm_W>>), Text(<<tk_DROP>>)}

NextOrder == NextOver(OrderSources)

SpecOrder == Init /\ [][NextOrder]_vars

\* the source being executed starts with W { v } DEF W and goes on, and
\* the program's first token, that invocation of W, has been executed
UsedBeforeChange ==
    /\ pc = "interpret"
    /\ Len(frames) = 1
    /\ Current.i >= 1
    /\ Len(tokens) > 6
    /\ SubSeq(tokens, 1, 2) = <<nm_W, tk_open>>
    /\ SubSeq(tokens, 4, 6) = <<tk_close, tk_DEF, nm_W>>

\* C15: the effects of a source take place in source order: an invocation
\* of W that follows `W { v } DEF` and precedes a later redefinition or
\* deletion of W in the same source runs the body v.
C15_EffectsInSourceOrder ==
    UsedBeforeChange =>
        /\ caught = "none"
        /\ stack # <<>>
        /\ Top(stack) = parseToken(tokens[3]).value

\* the custom words other than `name` whose body mentions it
OtherReferrers(cw, name) == Referrers(cw, name) \ {name}

\* parse defines the word `name`, which was not defined, while the body of
\* another custom word already mentions it; the new body does not mention
\* the word itself
DefinedAfterMention(name) ==
    /\ ParseStep
    /\ ~HasWord(customWords, name)
    /\ HasWord(customWords', name)
    /\ OtherReferrers(customWords, name) # {}
    /\ name \notin Referrers(customWords', name)

\* C16: the dependencies of a custom word are those of its DEF time: a word
\* defined after another word whose body already mentions it is not
\* protected by that mention.
C16_DependenciesFixedAtDefTime ==
    [][\A name \in {nm_A, nm_B} :
          DefinedAfterMention(name) =>
              ~isWordReferencedByOthers(customWords', name)]_vars

\* parse stands at a DEL of a custom word, or at a DEF that overwrites one,
\* and the only body that mentions that word is its own
AtSelfReferenced ==
    /\ AtBlock(tk_DEF) \/ AtBlock(tk_DEL) \/ AtShortDel
    /\ HasWord(customWords, Target)
    /\ Referrers(customWords, Target) = {Target}

\* C17: a custom word that only its own body references is not protected:
\* a DEL removes it and a DEF overwrites it, without an error.
C17_SelfReferenceDoesNotProtect ==
    [][(AtSelfReferenced /\ ParseStep) =>
          /\ ~ErrorAppended
          /\ (AtBlock(tk_DEL) \/ AtShortDel) => ~HasWord(customWords', Target)]_vars

(***************************************************************************)
(* Letter case.                                                            *)
(***************************************************************************)
lc_loop == <<"l", "o", "o", "p">>
nm_w == <<"w">>

\* a word defined under a lower-case name, and programs that name it and
\* LOOP in either case
CaseSources ==
    DefinitionSources({nm_w}, {lit_1, lc_loop}, MaxCallBody)
      \cup {Text(ts) : ts \in SeqsUpTo({lit_1, tk_toR, tk_LOOP, lc_loop, nm_W, nm_w},
                                        MaxSource)}

NextCase == NextOver(CaseSources)

SpecCase == Init /\ [][NextCase]_vars

\* a program, or a body, with every token in upper case
UpperTokens(prog) == [k \in 1..Len(prog) |-> normalizeToken(prog[k])]

\* the custom words with every body in upper case
UpperBodies(cw) ==
    [k \in 1..Len(cw) |-> [cw[k] EXCEPT !.body = UpperTokens(cw[k].body)]]

\* C19: names are case-insensitive: (a) a call of interpret starts a program
\* where it starts the same program written in upper case, and (b) a token
\* has the effect that the same token has in upper case with every body in
\* upper case.
C19_NamesCaseInsensitive ==
    [][/\ Len(frames') > Len(frames) =>
            LET entered == frames'[Len(frames')]
            IN  entered.i =
                  enter(UpperTokens(entered.program), register', entered.via).i
       /\ InterpretStep =>
            LET asWritten == tokenEffect(CurrentToken, stack, register, customWords)
                inUpper   == tokenEffect(normalizeToken(CurrentToken), stack,
                                         register, UpperBodies(customWords))
            IN  [asWritten EXCEPT !.body = UpperTokens(asWritten.body)] = inUpper]_vars

(***************************************************************************)
(* Definitions in src/unnamed/part_002.                                    *)
(***************************************************************************)
lit_4 == <<"4">>
nm_DOUBLE == <<"D", "O", "U", "B", "L", "E">>

\* DEF DOUBLE { DUP + }, as the welcome message writes it
DocumentedDefinition ==
    Text(<<tk_DEF, nm_DOUBLE, tk_open, tk_DUP, tk_plus, tk_close>>)

ForthDefineSources ==
    {DocumentedDefinition,
     Text(<<lit_4, nm_DOUBLE>>), Text(<<nm_DOUBLE>>), Text(<<lit_4, tk_DUP, tk_plus>>),
     Text(<<tk_DEL, nm_DOUBLE>>), Text(<<lit_4>>), Text(<<tk_DROP>>),
     Text(<<tk_plus>>)}

NextForthDefine == NextForthOver(ForthDefineSources)

SpecForthDefine == Init /\ [][NextForthDefine]_vars

\* C18: after the definition DEF DOUBLE { DUP + }, the source `4 DOUBLE`
\* leaves the stack that `4 DUP +` leaves: the body's tokens are executed in
\* order where DOUBLE is invoked, so that 8 is pushed.
C18_InvocationRunsBody ==
    [][(ExecuteForth(Text(<<lit_4, nm_DOUBLE>>))
          /\ normalizeToken(nm_DOUBLE) \in DOMAIN forthDictionary) =>
            /\ forthStack' = Append(forthStack, Fraction(8, 1))
            /\ forthStack' =
                 executeForth(Text(<<lit_4, tk_DUP, tk_plus>>), forthStack,
                              forthDictionary, forthOutput).stack]_vars

(***************************************************************************)
(* IF in src/unnamed/part_002.                                             *)
(***************************************************************************)
\* the string literal ""
lit_empty == <<"\"", "\"">>

ForthIFSources ==
    {Text(<<t>>) : t \in {lit_0, lit_1, lit_a, lit_empty, sk_IF, tk_DROP}}

NextForthIF == NextForthOver(ForthIFSources)

SpecForthIF == Init /\ [][NextForthIF]_vars

\* the number 0 and the empty string
Falsy(v) ==
    \/ IsFraction(v) /\ v.numerator = 0
    \/ v.kind = "HolonString" /\ v.value = <<>>

\* C20: IF replaces ( condition then else ) by the else-value when the
\* condition is 0 or the empty string, and by the then-value for every
\* other condition, a non-empty string included.
C20_IFSelectsByTruthiness ==
    [][(ExecuteForth(Text(<<sk_IF>>)) /\ Len(forthStack) >= 3) =>
          LET condition == forthStack[Len(forthStack) - 2]
              thenValue == forthStack[Len(forthStack) - 1]
              elseValue == forthStack[Len(forthStack)]
          IN  forthStack' = Append(Pop(forthStack, 3),
                                   IF Falsy(condition) THEN elseValue
                                   ELSE thenValue)]_vars

(***************************************************************************)
(* Stack underflow.                                                        *)
(***************************************************************************)
ComparisonWords == {tk_eq, tk_lt, tk_gt, tk_ge, tk_le}

\* the number of stack items a stack word needs: the bound of its
\* `state.stack.length < n` test
arity(name) ==
    CASE name \in {tk_DUP, tk_DROP} -> 1
      [] name = tk_SWAP -> 2
      [] name = tk_ROT -> 3
      [] name \in {tk_plus, tk_minus, tk_times, tk_div} \cup ComparisonWords -> 2
      [] OTHER -> 0

UnderflowTokens ==
    {lit_1, tk_toR, tk_DUP, tk_DROP, tk_SWAP, tk_ROT,
     tk_plus, tk_minus, tk_times, tk_div} \cup ComparisonWords

UnderflowSources == {Text(<<t>>) : t \in UnderflowTokens}

NextUnderflow == NextExecuteOver(UnderflowSources)

SpecUnderflow == Init /\ [][NextUnderflow]_vars

\* interpret executes a stack word on a stack with fewer items than it needs
Underflows ==
    /\ InterpretStep
    /\ Len(stack) < arity(normalizeToken(CurrentToken))

\* C21: DUP, DROP, SWAP, ROT and the binary arithmetic and comparison words,
\* invoked with fewer stack items than they need, raise `Stack underflow` and
\* leave the stack and the register as they were.
C21_UnderflowLeavesStateUnchanged ==
    [][Underflows =>
          (caught' = Underflow /\ stack' = stack /\ register' = register)]_vars

\* ROT has just raised on a stack of two items while the register is occupied
C21_Witness ==
    /\ pc = "interpret"
    /\ Current.program = <<tk_ROT>>
    /\ caught = Underflow
    /\ Len(stack) = 2
    /\ register # Null

(***************************************************************************)
(* Exact arithmetic.                                                       *)
(***************************************************************************)
\* r is the rational n/d (d not 0) in lowest terms: r = n/d by cross
\* multiplication, a positive denominator, and no common divisor above 1
IsExactly(r, n, d) ==
    /\ IsFraction(r)
    /\ r.denominator > 0
    /\ r.numerator * d = n * r.denominator
    /\ \A k \in 2..r.denominator :
          ~(r.numerator % k = 0 /\ r.denominator % k = 0)

\* the mathematical result of a op b as a pair <<numerator, denominator>>
Rational(op, a, b) ==
    CASE op = tk_plus ->
            <<a.numerator * b.denominator + b.numerator * a.denominator,
              a.denominator * b.denominator>>
      [] op = tk_minus ->
            <<a.numerator * b.denominator - b.numerator * a.denominator,
              a.denominator * b.denominator>>
      [] op = tk_times ->
            <<a.numerator * b.numerator, a.denominator * b.denominator>>
      [] op = tk_div ->
            <<a.numerator * b.denominator, a.denominator * b.numerator>>

\* interpret executes + - * or / on two Fractions, the divisor not 0
AtArithmetic ==
    /\ InterpretStep
    /\ normalizeToken(CurrentToken) \in {tk_plus, tk_minus, tk_times, tk_div}
    /\ Len(stack) >= 2
    /\ IsFraction(Top(stack))
    /\ IsFraction(stack[Len(stack) - 1])
    /\ normalizeToken(CurrentToken) = tk_div => Top(stack).numerator # 0

lit_2 == <<"2">>
lit_3 == <<"3">>

RECURSIVE interpretFrom(_, _, _, _)
\* interpret's while loop over a program of literals and built-in words,
\* from token i on: the stack it leaves
interpretFrom(prog, i, st, reg) ==
    IF i >= Len(prog) THEN st
    ELSE LET e == tokenEffect(At(prog, i), st, reg, <<>>)
         IN  IF e.thrown # "none" \/ e.hangs \/ e.call # "none" THEN st
             ELSE interpretFrom(prog, i + 1, e.stack, e.register)

\* `1 2 / 3 *` on an empty stack leaves exactly 3/2
ThreeHalves ==
    interpretFrom(<<lit_1, lit_2, tk_div, lit_3, tk_times>>, 0, <<>>, Null)
        = <<[kind |-> "Fraction", numerator |-> 3, denominator |-> 2]>>

\* C22: + - * and / on Fractions a and b (b not 0 for /) replace them by the
\* exact rational result in lowest terms, and `1 2 / 3 *` leaves 3/2.
C22_ArithmeticIsExact ==
    [][/\ ThreeHalves
       /\ AtArithmetic =>
            LET a == stack[Len(stack) - 1]
                b == Top(stack)
                q == Rational(normalizeToken(CurrentToken), a, b)
            IN  /\ caught' = "none"
                /\ Len(stack') = Len(stack) - 1
                /\ \A k \in 1..(Len(stack) - 2) : stack'[k] = stack[k]
                /\ IsExactly(Top(stack'), q[1], q[2])]_vars

\* `-` has just replaced -1/2 and 0 by -1/2
C22_Witness ==
    /\ Ran(<<tk_minus>>, 1)
    /\ stack = <<[kind |-> "Fraction", numerator |-> -1, denominator |-> 2]>>
    /\ register = Null

(***************************************************************************)
(* Unterminated string literals.                                           *)
(***************************************************************************)
\* the text "a with no closing quote, and a lone quote
lit_a_open == <<"\"", "a">>
lit_quote == <<"\"">>

UnterminatedSources ==
    {Text(<<lit_1, lit_a_open>>), lit_quote, lit_1, lit_a, tk_DUP, tk_DROP,
     tk_toR, tk_fromR}

NextUnterminated == NextExecuteOver(UnterminatedSources)

SpecUnterminated == Init /\ [][NextUnterminated]_vars

\* tokenize ended with inString still true: the last token opens with a
\* quote that nothing closes
Unterminated(toks) ==
    /\ toks # <<>>
    /\ LET last == toks[Len(toks)]
       IN  /\ last[1] = "\""
           /\ Len(last) = 1 \/ last[Len(last)] # "\""

\* C23: while a source with an unterminated string literal is handled, none
\* of its tokens is executed: the stack, the register and the custom words
\* stay as they were, and a parse error is raised.
C23_UnterminatedStringRejected ==
    [][(pc # "idle" /\ Unterminated(tokens)) =>
          /\ UNCHANGED <<stack, register, customWords>>
          /\ pc' = "idle" => caught # "none"]_vars

(***************************************************************************)
(* Words that can never be removed.                                        *)
(***************************************************************************)
\* C26: whenever at least one custom word exists, at least one custom word
\* is unprotected (no body references it), so that the words can be removed
\* one after the other.
C26_SomeWordUnprotected ==
    customWords # <<>> =>
        \E k \in 1..Len(customWords) :
            ~isWordReferencedByOthers(customWords, customWords[k].name)

(***************************************************************************)
(* LOOP with several looping words.                                        *)
(***************************************************************************)
\* V empties the register and ends with LOOP
body_V == <<tk_RESET, tk_LOOP>>
\* W pushes a 1, decrements the register by 1 and ends with LOOP
body_W == <<lit_1, lit_1, tk_Rminus, tk_LOOP>>

\* CLEAR n >R W: W invoked with the register holding n, on an empty stack
CountDown(n) == <<tk_CLEAR, n, tk_toR, nm_W>>
\* CLEAR 1 RESET W: W invoked with an empty register, on the stack <<1>>
EmptyRegisterCall == <<tk_CLEAR, lit_1, tk_RESET, nm_W>>

LoopSources ==
    {DefineText(nm_V, body_V), DefineText(nm_W, body_W),
     ShortDeleteText(nm_V), ShortDeleteText(nm_W),
     Text(CountDown(lit_1)), Text(CountDown(lit_2)), Text(EmptyRegisterCall),
     Text(<<lit_1, tk_toR, nm_V>>)}

NextLoop == NextExecuteOver(LoopSources)

SpecLoop == Init /\ [][NextLoop]_vars

\* LOOP, executed within the body of a custom word, calls interpret
LoopRepeats ==
    /\ InterpretStep
    /\ normalizeToken(CurrentToken) = tk_LOOP
    /\ Current.via # "executeCode"
    /\ Len(frames') > Len(frames)

\* C29: the body that LOOP repeats is the body of the custom word that is
\* being executed, also when several custom words contain LOOP.
C29_LoopRepeatsCurrentWord ==
    [][LoopRepeats => frames'[Len(frames')].program = Current.program]_vars

Ones(n) == [k \in 1..n |-> Fraction(1, 1)]

\* C30: a word whose body decrements the register by 1 and ends with LOOP,
\* invoked with the register holding n >= 1, returns with the register empty
\* after its body has run n times (W leaves n ones); with an empty register
\* it is skipped and leaves stack and register as they were.
C30_CountedLoop ==
    /\ Ran(CountDown(lit_1), 4) => (register = Null /\ stack = Ones(1))
    /\ Ran(CountDown(lit_2), 4) => (register = Null /\ stack = Ones(2))
    /\ Ran(EmptyRegisterCall, 4) => (register = Null /\ stack = Ones(1))

(***************************************************************************)
(* Division in src/unnamed/part_002.                                       *)
(***************************************************************************)
ForthDivideSources ==
    {Text(<<t>>) : t \in {lit_1, lit_2, lit_4, tk_div, tk_plus, tk_DROP}}

NextForthDivide == NextForthOver(ForthDivideSources)

SpecForthDivide == Init /\ [][NextForthDivide]_vars

\* C28: evaluating the token `/` with two numbers a and b on top of the
\* stack, b not 0, terminates and replaces them by the quotient a/b.
C28_DivideTerminatesWithQuotient ==
    [][(/\ ExecuteForth(Text(<<tk_div>>))
        /\ Len(forthStack) >= 2
        /\ IsFraction(Top(forthStack))
        /\ IsFraction(forthStack[Len(forthStack) - 1])
        /\ Top(forthStack).numerator # 0) =>
          LET a == forthStack[Len(forthStack) - 1]
              b == Top(forthStack)
          IN  /\ ~forthHung'
              /\ forthStack' =
                   Append(Pop(forthStack, 2),
                          Fraction(a.numerator * b.denominator,
                                   a.denominator * b.numerator))]_vars

(***************************************************************************)
(* The handlers of src/js/gui.js.                                          *)
(***************************************************************************)
\* a handler of the GUI ends with the GUI object and the calls of h
Handle(h) ==
    /\ gui' = h.gui
    /\ calls' = h.calls
    /\ continuation' = continuationAfter(h.calls, continuation)
    /\ UNCHANGED wasm
    /\ UNCHANGED <<interpreterVars, scriptVars, forthVars, loaderVars, keypadVars>>

\* the texts that the user writes into the code input
EditorTexts == {<<" ">>, Text(<<lit_1, tk_plus>>)}

\* the user edits the code input (typing, or a word button: insertWord)
Edit(code) ==
    /\ gui.codeInput # code
    /\ Handle(Handled([gui EXCEPT !.codeInput = code], <<>>))

\* the click handler of clear-btn
ClearButton ==
    /\ gui.codeInput # <<>>
    /\ Handle(Handled([gui EXCEPT !.codeInput = <<>>], <<>>))

\* keydown with Enter and ctrlKey: a step session is started, or continued
CtrlEnter ==
    \E r1 \in InitStepResults, r2 \in StepResults, isMobile \in BOOLEAN :
        Handle(IF ~gui.stepMode
               THEN startStepExecution(gui, wasm, r1, r2, isMobile)
               ELSE continueStepExecution(gui, r2, isMobile))

\* keydown with Enter and shiftKey, and the click handler of run-btn
Run ==
    \E r \in ExecuteResults, isMobile \in BOOLEAN :
        Handle(executeCode(gui, wasm, r, isMobile))

\* the click handler of the memory area: on a mobile screen in execution
\* mode, setMode('input')
MemoryClick ==
    /\ gui.mode = "execution"
    /\ Handle(Handled([gui EXCEPT !.mode = "input"], <<>>))

\* the wasmLoaded event: window.HolonWasm is set and the interpreter made
WasmLoaded ==
    /\ ~wasm
    /\ wasm' = TRUE
    /\ UNCHANGED <<gui, continuation, calls>>
    /\ UNCHANGED <<interpreterVars, scriptVars, forthVars, loaderVars, keypadVars>>

NextGui ==
    \/ \E code \in EditorTexts : Edit(code)
    \/ ClearButton
    \/ CtrlEnter
    \/ Run
    \/ MemoryClick
    \/ WasmLoaded

SpecGui == Init /\ [][NextGui]_vars

\* every step() among the calls of the handler was made while the
\* interpreter held a step continuation
StepsWithinSession ==
    \A k \in 1..Len(calls') :
        calls'[k].op = "step" =>
            continuationAfter(SubSeq(calls', 1, k - 1), continuation)

\* the handler before this one ended with a step that reported no more
\* tokens
ReportedNoMore ==
    /\ calls # <<>>
    /\ LET last == calls[Len(calls)]
       IN  last.op = "step" /\ ~last.thrown /\ ~last.hasMore

\* C24 as claimed: step() is called only within a step session, and the
\* Ctrl+Enter that follows a step reporting no more tokens calls init_step.
C24_NextCtrlEnterCallsInitStep ==
    [][/\ StepsWithinSession
       /\ (ReportedNoMore /\ CtrlEnter) =>
             (calls' # <<>> /\ calls'[1].op = "init_step")]_vars

\* C24 amended: step() is called only within a step session; a Ctrl+Enter
\* outside a session calls init_step first when the code input holds code
\* and the interpreter is loaded, and calls nothing otherwise (the step that
\* reports no more tokens clears the code input), never step() first.
C24_StepOnlyWithinSession ==
    [][/\ StepsWithinSession
       /\ (~continuation /\ CtrlEnter) =>
             IF Trim(gui.codeInput) # <<>> /\ wasm
             THEN calls' # <<>> /\ calls'[1].op = "init_step"
             ELSE calls' = <<>>
       /\ ReportedNoMore => (~gui.stepMode /\ gui.codeInput = <<>>)]_vars

\* after an evaluation had completed on a mobile screen, a Ctrl+Enter outside
\* a session has called init_step and, in the session it started, step()
C24_Witness ==
    /\ Len(calls) = 2
    /\ calls[1].op = "init_step"
    /\ calls[2].op = "step"
    /\ calls[2].hasMore
    /\ continuation
    /\ gui.stepMode
    /\ gui.mode = "execution"

\* the call reports an error, as an error status or as an exception
Failed(c) == c.op \in {"execute", "step"} /\ (c.thrown \/ c.status # "OK")

\* C27: whenever execute or a step reports an error, as an error status or
\* as a thrown exception, the content of the code input is retained.
C27_ErrorRetainsCodeInput ==
    [][(\E k \in 1..Len(calls') : Failed(calls'[k])) =>
          gui'.codeInput = gui.codeInput]_vars

(***************************************************************************)
(* FOLK.                                                                   *)
(***************************************************************************)
\* W skips the push of 1 while the register is empty
body_FOLK == <<tk_FOLK, lit_1>>

\* W followed by a literal: the token that follows the invocation
FolkCall == <<nm_W, lit_0>>

FolkSources ==
    {DefineText(nm_W, body_FOLK), DefineText(nm_V, <<nm_W, lit_0>>),
     Text(FolkCall), Text(<<nm_V>>), Text(<<nm_W>>),
     Text(<<lit_1, tk_toR>>), Text(<<tk_RESET>>), Text(<<tk_DROP>>)}

NextFolk == NextExecuteOver(FolkSources)

SpecFolk == Init /\ [][NextFolk]_vars

\* interpret executes FOLK within the body of a custom word
FolkInWord ==
    /\ InterpretStep
    /\ normalizeToken(CurrentToken) = tk_FOLK
    /\ Current.via # "executeCode"

\* C31: FOLK inside a custom word leaves stack and register unchanged; with
\* an empty register the rest of the word's body is skipped and execution
\* resumes with the token that follows the word's invocation; with a
\* non-empty register the body continues with the token after FOLK.
C31_FolkSkipsRestOfWord ==
    [][/\ FolkInWord =>
            /\ stack' = stack /\ register' = register
            /\ pc' = "interpret"
            /\ Len(frames') = Len(frames)
            /\ frames'[Len(frames')].i =
                   IF register = Null THEN Len(Current.program)
                   ELSE Current.i + 1
            /\ register # Null => caught' = "none"
       /\ (Return /\ caught = SkipWord /\ Current.via # "executeCode") =>
            /\ stack' = stack /\ register' = register
            /\ pc' = "interpret"
            /\ Len(frames') = Len(frames) - 1
            /\ frames'[Len(frames')].i = frames[Len(frames) - 1].i + 1
            /\ frames'[Len(frames')].program = frames[Len(frames) - 1].program]_vars

\* `W 0` has completed with an empty register: the 1 of W's body was
\* skipped and the 0 that follows the invocation was pushed
C31_Witness ==
    /\ Ran(FolkCall, 2)
    /\ HasWord(customWords, nm_W)
    /\ WordOf(customWords, nm_W).body = body_FOLK
    /\ register = Null
    /\ stack = <<Fraction(0, 1)>>

\* ---------------------------------------------------------------------
\* src/unnamed/part_000: initWasm, one action per stretch of the async
\* function between two awaits
\* ---------------------------------------------------------------------

LoaderUnchanged == UNCHANGED <<interpreterVars, scriptVars, forthVars, guiVars, keypadVars>>

\* call c is at the given await
Awaits(c, at) == loaderCalls[c].at = at

\* call c moves on
Resume(c, at, result) == loaderCalls' = [loaderCalls EXCEPT ![c] = LoaderCall(at, result)]

\* initWasm() is called: the cached module is returned, or the call starts
\* the import and is suspended at it
initWasm(c) ==
    /\ loaderCalls[c].at \in {"idle", "done"}
    /\ IF wasmModule # "null"
         THEN Resume(c, "done", wasmModule)
         ELSE Resume(c, "import", "none")
    /\ UNCHANGED <<wasmModule, moduleShape, initialised>>
    /\ LoaderUnchanged

\* import() resolves: the call invokes the module's init function and is
\* suspended at it, or stores a module without one and returns it
ImportResolved(c) ==
    /\ Awaits(c, "import")
    /\ \E shape \in ModuleShapes :
         /\ moduleShape \in {"unknown", shape}
         /\ moduleShape' = shape
         /\ IF shape \in {"default", "init"}
              THEN /\ Resume(c, "init", "none")
                   /\ UNCHANGED wasmModule
              ELSE /\ Resume(c, "done", Module)
                   /\ wasmModule' = Module
    /\ UNCHANGED initialised
    /\ LoaderUnchanged

\* the module's init function completes: the module has been initialised
\* once more, and the call caches and returns it
InitResolved(c) ==
    /\ Awaits(c, "init")
    /\ initialised' = initialised + 1
    /\ wasmModule' = Module
    /\ Resume(c, "done", Module)
    /\ UNCHANGED moduleShape
    /\ LoaderUnchanged

\* import() or the init function rejects: the catch block starts the
\* fallback fetch and the call is suspended at it
Rejected(c) ==
    /\ Awaits(c, "import") \/ Awaits(c, "init")
    /\ Resume(c, "fetch", "none")
    /\ UNCHANGED <<wasmModule, moduleShape, initialised>>
    /\ LoaderUnchanged

\* the fallback fetch settles either way: the call returns null
FetchSettled(c) ==
    /\ Awaits(c, "fetch")
    /\ Resume(c, "done", "null")
    /\ UNCHANGED <<wasmModule, moduleShape, initialised>>
    /\ LoaderUnchanged

NextLoader == \E c \in CallIds : initWasm(c) \/ ImportResolved(c) \/ InitResolved(c) \/ Rejected(c) \/ FetchSettled(c)

SpecLoader == Init /\ [][NextLoader]_vars

\* C34: the loader initialises the module at most once, however the calls
\* of initWasm interleave: the module's init function never completes a
\* second time.  The code violates this: two calls that both pass the test
\* of line 4 before either reaches line 27 both run the init function.
C34_InitialisedAtMostOnce == initialised <= 1

\* ---------------------------------------------------------------------
\* src/unnamed/part_004: the handlers and the timers of the dot keypad
\* ---------------------------------------------------------------------

KeypadUnchanged == UNCHANGED <<interpreterVars, scriptVars, forthVars, guiVars, loaderVars>>

\* the gesture state and the long-press timer as they are
TheKeypad == Keypad(drawState, longPress)

\* the handler leaves the gesture state and the long-press timer as k
Leaves(k) == drawState' = k.ds /\ longPress' = k.lp

\* insertAtCursor(text): the insertions are kept in order
insertAtCursor(text) == inserted' = Append(inserted, text)

\* pointerdown on a dot of the grid or on the zero button
handlePointerDown(element) ==
    /\ ~pointer.down
    /\ LET text  == digitOrWord(element)
           down  == [drawState EXCEPT !.isLongPress = FALSE, !.currentTouchId = PointerId]
           timed == IF text # ""
                      THEN Keypad([down EXCEPT !.longPressTimer = TRUE],
                                  [live |-> TRUE, due |-> now + longPressDuration, text |-> text])
                      ELSE Keypad(down, longPress)
       IN  Leaves(IF element \in GridDots THEN startDrawing(timed, element, now) ELSE timed)
    /\ pointer' = Pointer(TRUE, element, FALSE, Len(inserted))
    /\ UNCHANGED <<recognitionTimers, now, inserted>>
    /\ KeypadUnchanged

\* pointermove of the pointer that is down, to a dot of the grid or to a
\* place without a dot
handlePointerMove(position) ==
    /\ pointer.down
    /\ IF ~drawState.isActive \/ PointerId # drawState.currentTouchId
         THEN UNCHANGED <<drawState, longPress>>
         ELSE LET cleared == Keypad([drawState EXCEPT !.longPressTimer = FALSE], NoTimer)
              IN  Leaves(IF position \in GridDots THEN addDetectedDot(cleared, position) ELSE cleared)
    /\ pointer' = [pointer EXCEPT !.moved = TRUE]
    /\ UNCHANGED <<recognitionTimers, now, inserted>>
    /\ KeypadUnchanged

\* pointerup or pointercancel of the pointer that is down; endDrawing starts
\* a recognition timer, which nothing ever clears
handlePointerUp ==
    /\ pointer.down
    /\ IF PointerId # drawState.currentTouchId
         THEN UNCHANGED <<drawState, longPress, recognitionTimers>>
         ELSE IF drawState.isActive /\ ~drawState.isLongPress
           THEN /\ Len(recognitionTimers) < MaxTimers
                /\ drawState' = [drawState EXCEPT !.lastStrokeTime = now, !.currentTouchId = "null"]
                /\ longPress' = NoTimer
                /\ recognitionTimers' = Append(recognitionTimers, now + multiStrokeTimeout)
           ELSE /\ LET k == IF drawState.isLongPress
                              THEN resetDrawState(TheKeypad, FALSE)
                              ELSE Keypad(drawState, NoTimer)
                   IN  Leaves(Keypad([k.ds EXCEPT !.currentTouchId = "null"], k.lp))
                /\ UNCHANGED recognitionTimers
    /\ pointer' = PointerUpState
    /\ UNCHANGED <<now, inserted>>
    /\ KeypadUnchanged

\* the long-press timer set by handlePointerDown fires
LongPressTimer ==
    /\ longPress.live
    /\ longPress.due <= now
    /\ IF drawState.isActive /\ Cardinality(drawState.detectedDots) > 1
         THEN /\ longPress' = NoTimer
              /\ UNCHANGED <<drawState, inserted>>
         ELSE /\ Len(inserted) < MaxInserted
              /\ insertAtCursor(longPress.text)
              /\ Leaves(resetDrawState(Keypad([drawState EXCEPT !.isLongPress = TRUE], NoTimer), FALSE))
    /\ UNCHANGED <<recognitionTimers, now, pointer>>
    /\ KeypadUnchanged

\* the recognition timer's test: the last stroke ended long enough ago
Recognises == now - drawState.lastStrokeTime >= multiStrokeTimeout - recognitionSlack

\* the oldest recognition timer set by endDrawing fires
RecognitionTimer ==
    /\ recognitionTimers # <<>>
    /\ Head(recognitionTimers) <= now
    /\ recognitionTimers' = Tail(recognitionTimers)
    /\ IF Recognises
         THEN LET recognized == IF drawState.detectedDots # {} /\ drawState.totalValue > 0
                                  THEN recognizeLetter(drawState.totalValue) ELSE ""
              IN  /\ IF recognized # ""
                       THEN Len(inserted) < MaxInserted /\ insertAtCursor(recognized)
                       ELSE UNCHANGED inserted
                  /\ Leaves(resetDrawState(TheKeypad, FALSE))
         ELSE UNCHANGED <<drawState, longPress, inserted>>
    /\ UNCHANGED <<now, pointer>>
    /\ KeypadUnchanged

\* time passes; a timer fires when it is due, before time passes further
Tick ==
    /\ now < StartTime + MaxTicks * recognitionSlack
    /\ longPress.live => longPress.due > now
    /\ recognitionTimers # <<>> => Head(recognitionTimers) > now
    /\ now' = now + recognitionSlack
    /\ UNCHANGED <<drawState, longPress, recognitionTimers, pointer, inserted>>
    /\ KeypadUnchanged

NextKeypad ==
    \/ \E element \in Elements : handlePointerDown(element)
    \/ \E position \in GridDots \cup {noElement} : handlePointerMove(position)
    \/ handlePointerUp
    \/ LongPressTimer
    \/ RecognitionTimer
    \/ Tick

SpecKeypad == Init /\ [][NextKeypad]_vars

\* a stroke on the grid is in progress: the pointer is down on a dot
StrokeInProgress == pointer.down /\ pointer.on \in GridDots

\* C32: the recognition timer started at the end of one stroke never
\* recognises and resets the gesture state while the pointer of a following
\* stroke is down.  The code violates this: the timer is never cleared and
\* its test looks only at the end of the previous stroke.
C32_NoRecognitionDuringStroke == [][(RecognitionTimer /\ Recognises) => ~StrokeInProgress]_vars

\* the long-press timer inserts the digit or word of the pressed element
LongPressInserts == LongPressTimer /\ inserted' # inserted

\* the insertions made since the pointer went down
InsertedInInteraction == Len(inserted) - pointer.mark

\* while the pointer is down, at most one thing has been inserted
AtMostOneInsertion == pointer.down => InsertedInInteraction <= 1

\* C33: a long press inserts only while the pointer is down and has not
\* moved since it went down, and between pointer-down and pointer-up at most
\* one thing is inserted.  The code violates the first part: a move is
\* ignored, and the long-press timer kept, while no gesture is active.
C33_OneInsertionPerInteraction == [][(LongPressInserts => (pointer.down /\ ~pointer.moved)) /\ AtMostOneInsertion']_vars

====
